---------------------------- MODULE Spec2Model ----------------------------
(***************************************************************************)
(* Hamming(7,4) codec, packet builder and packet decoder of qpsk-py        *)
(* (src/src/common/hamming.py, src/src/common/packet.py,                   *)
(* src/src/receiver/decoder.py), modelled as state machines.               *)
(*                                                                         *)
(* A bit is 0 or 1, a byte is 0..255, a numpy array / bytes object / deque *)
(* is a sequence.  Python index i is TLA+ index i+1; positions that the    *)
(* code reports (preamble_pos, error_position) keep Python's numbering.    *)
(***************************************************************************)
EXTENDS Integers, Sequences, FiniteSets, TLC

(***************************************************************************)
(* Generic helpers for Python slices and loops.                            *)
(***************************************************************************)

\* data[lo:hi] of Python (0-based, hi exclusive, clipped to the data).
Slice(data, lo, hi) ==
    LET h == IF hi > Len(data) THEN Len(data) ELSE hi
    IN  IF lo >= h THEN <<>> ELSE SubSeq(data, lo + 1, h)

\* a ^ b on bits.
Xor(a, b) == (a + b) % 2

\* np.sum(a != b) for two arrays of the same length.
Mismatches(a, b) == Cardinality({k \in 1..Len(a) : a[k] # b[k]})

RECURSIVE ConcatRange(_, _, _)
\* The parts lo..hi joined in order (by halves, to keep the recursion shallow).
ConcatRange(parts, lo, hi) ==
    IF lo > hi THEN <<>>
    ELSE IF lo = hi THEN parts[lo]
    ELSE LET mid == (lo + hi) \div 2
         IN  ConcatRange(parts, lo, mid) \o ConcatRange(parts, mid + 1, hi)

\* np.concatenate / list.extend over a sequence of sequences.
Concat(parts) == ConcatRange(parts, 1, Len(parts))

(***************************************************************************)
(* src/src/common/hamming.py                                               *)
(***************************************************************************)

\* G with the last parity bit of the second row mistyped.
G_typo == << <<1, 0, 0, 0, 1, 1, 0>>,
             <<0, 1, 0, 0, 1, 0, 0>>,
             <<0, 0, 1, 0, 0, 1, 1>>,
             <<0, 0, 0, 1, 1, 1, 1>> >>

\* HammingEncoder.G
G == << <<1, 0, 0, 0, 1, 1, 0>>,
        <<0, 1, 0, 0, 1, 0, 1>>,
        <<0, 0, 1, 0, 0, 1, 1>>,
        <<0, 0, 0, 1, 1, 1, 1>> >>

\* HammingDecoder.H
H == << <<1, 1, 0, 1, 1, 0, 0>>,
        <<1, 0, 1, 1, 0, 1, 0>>,
        <<0, 1, 1, 1, 0, 0, 1>> >>

\* The outcome of a call that raises ValueError instead of returning.
ValueError == [raised |-> "ValueError"]

\* encode_4bits without its length check: missing bits count as 0 and
\* surplus bits are dropped.
encode_4bits_any_length(data_bits) ==
    LET d(i) == IF i <= Len(data_bits) THEN data_bits[i] ELSE 0
    IN  [j \in 1..7 |-> (d(1) * G[1][j] + d(2) * G[2][j]
                          + d(3) * G[3][j] + d(4) * G[4][j]) % 2]

\* HammingEncoder.encode_4bits: np.dot(data_bits, G) % 2.
encode_4bits(data_bits) ==
    IF Len(data_bits) # 4 THEN ValueError
    ELSE [j \in 1..7 |-> (data_bits[1] * G[1][j] + data_bits[2] * G[2][j]
                          + data_bits[3] * G[3][j] + data_bits[4] * G[4][j]) % 2]

\* [(byte >> (7-i)) & 1 for i in range(4)]
high_nibble(byte) == [i \in 1..4 |-> (byte \div (2 ^ (8 - i))) % 2]

\* The low nibble taken least significant bit first: (byte >> i) & 1.
low_nibble_reversed(byte) == [i \in 1..4 |-> (byte \div (2 ^ (i - 1))) % 2]

\* [(byte >> (3-i)) & 1 for i in range(4)]
low_nibble(byte) == [i \in 1..4 |-> (byte \div (2 ^ (4 - i))) % 2]

\* encode_bytes appending the low nibble's codeword ahead of the high one's.
encode_bytes_low_first(data) ==
    Concat([b \in 1..Len(data) |->
              encode_4bits(low_nibble(data[b])) \o encode_4bits(high_nibble(data[b]))])

\* HammingEncoder.encode_bytes: per byte, the high nibble's codeword and
\* then the low nibble's codeword are appended to the result.
encode_bytes(data) ==
    Concat([b \in 1..Len(data) |->
              encode_4bits(high_nibble(data[b])) \o encode_4bits(low_nibble(data[b]))])

\* syndrome = np.dot(H, received_bits) % 2
Syndrome(received_bits) ==
    [i \in 1..3 |->
        (H[i][1] * received_bits[1] + H[i][2] * received_bits[2]
         + H[i][3] * received_bits[3] + H[i][4] * received_bits[4]
         + H[i][5] * received_bits[5] + H[i][6] * received_bits[6]
         + H[i][7] * received_bits[7]) % 2]

\* The error position counted from 0, as an array index is.
ErrorPosition_zero_based(syndrome) ==
    syndrome[1] * 4 + syndrome[2] * 2 + syndrome[3] * 1 - 1

\* error_position = syndrome[0] * 4 + syndrome[1] * 2 + syndrome[2] * 1
ErrorPosition(syndrome) == syndrome[1] * 4 + syndrome[2] * 2 + syndrome[3] * 1

\* HammingDecoder.decode_7bits: the returned (data_bits, error_corrected),
\* with the word after the correction kept for inspection.
decode_7bits(received_bits) ==
    IF Len(received_bits) # 7 THEN ValueError
    ELSE LET syndrome == Syndrome(received_bits)
             any == \E i \in 1..3 : syndrome[i] # 0
             error_position == IF any THEN ErrorPosition(syndrome) ELSE 0
             fix == any /\ 1 <= error_position /\ error_position <= 7
             word == IF fix
                     THEN [received_bits EXCEPT ![error_position] = Xor(@, 1)]
                     ELSE received_bits
         IN  [data_bits |-> <<word[1], word[2], word[3], word[4]>>,
              error_corrected |-> fix, word |-> word]

\* byte_val |= nibble[j] << (7-j) resp. (3-j)
ByteOf(high, low) ==
    high[1] * 128 + high[2] * 64 + high[3] * 32 + high[4] * 16
    + low[1] * 8 + low[2] * 4 + low[3] * 2 + low[4]

\* decode_bytes counting the corrected codewords instead of the chunks:
\* total_errors += error1 + error2.
decode_bytes_counts_codewords(encoded_bits) ==
    LET n == Len(encoded_bits) \div 14
        hi(c) == decode_7bits(Slice(encoded_bits, 14 * (c - 1), 14 * (c - 1) + 7))
        lo(c) == decode_7bits(Slice(encoded_bits, 14 * (c - 1) + 7, 14 * c))
    IN  [bytes |-> [c \in 1..n |-> ByteOf(hi(c).data_bits, lo(c).data_bits)],
         total_errors |->
             Cardinality({c \in 1..n : hi(c).error_corrected})
             + Cardinality({c \in 1..n : lo(c).error_corrected})]

\* HammingDecoder.decode_bytes: one byte per complete 14-bit chunk; a chunk
\* counts one error when either of its two codewords was corrected.  A
\* ValueError of decode_7bits propagates to the caller.
decode_bytes(encoded_bits) ==
    LET n == Len(encoded_bits) \div 14
        hi(c) == decode_7bits(Slice(encoded_bits, 14 * (c - 1), 14 * (c - 1) + 7))
        lo(c) == decode_7bits(Slice(encoded_bits, 14 * (c - 1) + 7, 14 * c))
    IN  IF \E c \in 1..n : hi(c) = ValueError \/ lo(c) = ValueError
        THEN ValueError
        ELSE [bytes |-> [c \in 1..n |-> ByteOf(hi(c).data_bits, lo(c).data_bits)],
              total_errors |->
                  Cardinality({c \in 1..n :
                                 hi(c).error_corrected \/ lo(c).error_corrected})]

(***************************************************************************)
(* src/src/common/packet.py                                                *)
(***************************************************************************)

\* PacketProtocol.PREAMBLE
PREAMBLE == <<1, 0, 1, 0, 1, 0, 1, 0, 1, 1, 0, 0, 1, 1, 0, 0>>

\* PacketProtocol.START_MARKER
START_MARKER == <<1, 1, 1, 1, 0, 0, 0, 0>>

\* PacketProtocol.END_MARKER
END_MARKER == <<0, 0, 0, 0, 1, 1, 1, 1>>

MAX_PAYLOAD_LENGTH == 255

MIN_PAYLOAD_LENGTH == 1

HEADER_LENGTH == 4

\* create_header writing the length low byte first.
create_header_low_byte_first(payload_length, sequence_number) ==
    IF payload_length < MIN_PAYLOAD_LENGTH \/ payload_length > MAX_PAYLOAD_LENGTH
    THEN ValueError
    ELSE << payload_length % 256, (payload_length \div 256) % 256,
            sequence_number % 256, 0 >>

\* create_header without the upper limit of the length.
create_header_no_upper_limit(payload_length, sequence_number) ==
    IF payload_length < MIN_PAYLOAD_LENGTH
    THEN ValueError
    ELSE << (payload_length \div 256) % 256, payload_length % 256,
            sequence_number % 256, 0 >>

\* create_header holding a sequence number beyond a byte at 255.
create_header_saturating(payload_length, sequence_number) ==
    IF payload_length < MIN_PAYLOAD_LENGTH \/ payload_length > MAX_PAYLOAD_LENGTH
    THEN ValueError
    ELSE << (payload_length \div 256) % 256, payload_length % 256,
            IF sequence_number > 255 THEN 255 ELSE sequence_number, 0 >>

\* PacketBuilder.create_header: [length high byte, length low byte,
\* sequence number & 0xFF, reserved 0], or ValueError for a bad length.
create_header(payload_length, sequence_number) ==
    IF payload_length < MIN_PAYLOAD_LENGTH \/ payload_length > MAX_PAYLOAD_LENGTH
    THEN ValueError
    ELSE << (payload_length \div 256) % 256, payload_length % 256,
            sequence_number % 256, 0 >>

\* PacketBuilder.build_packet for a bytes message: (packet_bits, metadata),
\* or the ValueError of create_header.
build_packet(message, sequence_number) ==
    LET payload_bytes == message
        header_bytes == create_header(Len(payload_bytes), sequence_number)
    IN  IF header_bytes = ValueError THEN ValueError
        ELSE LET encoded_header == encode_bytes(header_bytes)
                 encoded_payload == encode_bytes(payload_bytes)
                 packet_bits == Concat(<<PREAMBLE, START_MARKER, encoded_header,
                                         encoded_payload, END_MARKER>>)
             IN  [packet_bits |-> packet_bits,
                  payload_length |-> Len(payload_bytes),
                  sequence_number |-> sequence_number,
                  preamble_bits |-> Len(PREAMBLE),
                  start_marker_bits |-> Len(START_MARKER),
                  header_bits |-> Len(encoded_header),
                  payload_bits |-> Len(encoded_payload),
                  end_marker_bits |-> Len(END_MARKER),
                  total_bits |-> Len(packet_bits)]

\* The metadata dictionary of a built packet r.
Metadata(r) ==
    [payload_length |-> r.payload_length,
     sequence_number |-> r.sequence_number,
     preamble_bits |-> r.preamble_bits,
     start_marker_bits |-> r.start_marker_bits,
     header_bits |-> r.header_bits,
     payload_bits |-> r.payload_bits,
     end_marker_bits |-> r.end_marker_bits,
     total_bits |-> r.total_bits]

(***************************************************************************)
(* src/src/receiver/decoder.py                                             *)
(***************************************************************************)

\* deque(maxlen=1000)
BUFFER_MAXLEN == 1000

\* The return value None, and a returned packet_info p.
None == <<>>

Some(p) == <<p>>

\* The outcome of a call to the decoder that is left by exception e.
Raise(e) == <<"raise", e>>

\* The loop body taking a later offset that is as good as the best so far:
\* errors <= min_errors.
FindStep_takes_ties(data, pattern, max_errors, i, st) ==
    IF st.broke THEN st
    ELSE LET chunk == Slice(data, i, i + Len(pattern))
             errors == Mismatches(chunk, pattern)
         IN  IF errors <= max_errors /\ errors <= st.min_errors
             THEN [best_pos |-> i, min_errors |-> errors, broke |-> errors = 0]
             ELSE st

\* One iteration of find_pattern's loop at offset i; st is the loop state
\* (best_pos, min_errors, and whether the loop has left through break).
\* float('inf') is any value above every possible mismatch count.
FindStep(data, pattern, max_errors, i, st) ==
    IF st.broke THEN st
    ELSE LET chunk == Slice(data, i, i + Len(pattern))
             errors == Mismatches(chunk, pattern)
         IN  IF errors <= max_errors /\ errors < st.min_errors
             THEN [best_pos |-> i, min_errors |-> errors, broke |-> errors = 0]
             ELSE st

RECURSIVE FindLoop(_, _, _, _, _, _)
\* The iterations lo..hi of the loop in ascending order, from loop state st
\* (the range is halved only to keep the evaluation shallow).
FindLoop(data, pattern, max_errors, lo, hi, st) ==
    IF lo > hi \/ st.broke THEN st
    ELSE IF lo = hi THEN FindStep(data, pattern, max_errors, lo, st)
    ELSE LET mid == (lo + hi) \div 2
         IN  FindLoop(data, pattern, max_errors, mid + 1, hi,
                      FindLoop(data, pattern, max_errors, lo, mid, st))

\* find_pattern accepting one mismatch more than max_errors.
find_pattern_tolerant(data, pattern, max_errors) ==
    LET inf == Len(pattern) + 1
        st == FindLoop(data, pattern, max_errors + 1, 0, Len(data) - Len(pattern),
                       [best_pos |-> -1, min_errors |-> inf, broke |-> FALSE])
    IN  IF st.min_errors <= max_errors + 1 THEN st.best_pos ELSE -1

\* PacketDecoder.find_pattern
find_pattern(data, pattern, max_errors) ==
    LET inf == Len(pattern) + 1
        st == FindLoop(data, pattern, max_errors, 0, Len(data) - Len(pattern),
                       [best_pos |-> -1, min_errors |-> inf, broke |-> FALSE])
    IN  IF st.min_errors <= max_errors THEN st.best_pos ELSE -1

\* deque.extend on a deque without maxlen.
Extend_unbounded(bit_buffer, new_bits) == bit_buffer \o new_bits

\* A bounded buffer that refuses the newest bits once it is full.
Extend_drops_newest(bit_buffer, new_bits) ==
    LET all == bit_buffer \o new_bits
    IN  IF Len(all) > BUFFER_MAXLEN THEN SubSeq(all, 1, BUFFER_MAXLEN) ELSE all

\* deque.extend on a deque of bounded length: the oldest bits fall out.
Extend(bit_buffer, new_bits) ==
    LET all == bit_buffer \o new_bits
    IN  IF Len(all) > BUFFER_MAXLEN
        THEN SubSeq(all, Len(all) - BUFFER_MAXLEN + 1, Len(all))
        ELSE all

\* The pop loop taking the bits from the tail, as pop() does.
PopLeft_from_tail(bit_buffer, n) ==
    IF n >= Len(bit_buffer) THEN <<>> ELSE SubSeq(bit_buffer, 1, Len(bit_buffer) - n)

\* The first n bits moved to the tail of the buffer, as rotate(-n) does,
\* not popped.
PopLeft_rotates(bit_buffer, n) ==
    IF n >= Len(bit_buffer) THEN bit_buffer
    ELSE SubSeq(bit_buffer, n + 1, Len(bit_buffer)) \o SubSeq(bit_buffer, 1, n)

\* The pop loop running one time too few: range(n - 1).
PopLeft_one_short(bit_buffer, n) ==
    IF n - 1 >= Len(bit_buffer) THEN <<>>
    ELSE IF n - 1 <= 0 THEN bit_buffer
    ELSE SubSeq(bit_buffer, n, Len(bit_buffer))

\* for _ in range(n): if self.bit_buffer: self.bit_buffer.popleft()
PopLeft(bit_buffer, n) ==
    IF n >= Len(bit_buffer) THEN <<>> ELSE SubSeq(bit_buffer, n + 1, Len(bit_buffer))

\* min_packet_size without the term of the minimum payload.
min_packet_size_no_payload ==
    Len(PREAMBLE) + Len(START_MARKER) + HEADER_LENGTH * 14 + Len(END_MARKER)

\* min_packet_size of try_decode_packet
min_packet_size ==
    Len(PREAMBLE) + Len(START_MARKER) + HEADER_LENGTH * 14
    + MIN_PAYLOAD_LENGTH * 14 + Len(END_MARKER)

\* start_marker_errors = np.sum(start_marker_data != self.START_MARKER)
start_marker_errors(buffer_array, expected_start_pos) ==
    Mismatches(Slice(buffer_array, expected_start_pos,
                     expected_start_pos + Len(START_MARKER)), START_MARKER)

\* The end marker accepted unseen.
end_marker_errors_unchecked(buffer_array, end_marker_start) == 0

\* end_marker_errors = np.sum(end_marker_data != self.END_MARKER)
end_marker_errors(buffer_array, end_marker_start) ==
    Mismatches(Slice(buffer_array, end_marker_start,
                     end_marker_start + Len(END_MARKER)), END_MARKER)

\* A rejection that skips the false preamble and the 8 bits after it.
Reject_through_start_marker(bit_buffer, packets_received, n) ==
    [bit_buffer |-> PopLeft(bit_buffer, IF n > 0
                                        THEN n - 1 + Len(PREAMBLE) + Len(START_MARKER)
                                        ELSE 0),
     packets_received |-> packets_received, ret |-> None]

\* A rejection that returns None and discards nothing.
Reject_without_discard(bit_buffer, packets_received, n) ==
    [bit_buffer |-> bit_buffer, packets_received |-> packets_received, ret |-> None]

\* A rejection that skips the whole false preamble, not its first bit only.
Reject_whole_preamble(bit_buffer, packets_received, n) ==
    [bit_buffer |-> PopLeft(bit_buffer, IF n > 0 THEN n - 1 + Len(PREAMBLE) ELSE 0),
     packets_received |-> packets_received, ret |-> None]

\* The result of a call that returns None having popped n bits.
Reject(bit_buffer, packets_received, n) ==
    [bit_buffer |-> PopLeft(bit_buffer, n), packets_received |-> packets_received,
     ret |-> None]

\* packet_info measuring the frame from the head of the buffer.
packet_info_from_buffer_head(sequence_number, payload_length, payload, header_errors, end_marker_end, preamble_pos, packets_received) ==
    [sequence_number |-> sequence_number,
     payload_length |-> payload_length,
     payload |-> payload.bytes,
     header_errors |-> header_errors,
     payload_errors |-> payload.total_errors,
     total_packet_bits |-> end_marker_end,
     packet_number |-> packets_received]

\* The packet_info dictionary of a decoded frame; packets_received is the
\* counter after its increment.
packet_info(sequence_number, payload_length, payload, header_errors, end_marker_end, preamble_pos, packets_received) ==
    [sequence_number |-> sequence_number,
     payload_length |-> payload_length,
     payload |-> payload.bytes,
     header_errors |-> header_errors,
     payload_errors |-> payload.total_errors,
     total_packet_bits |-> end_marker_end - preamble_pos,
     packet_number |-> packets_received]

\* A success that returns the packet and leaves its frame in the buffer.
Accept_keeps_frame(bit_buffer, packets_received, end_marker_end, info) ==
    [bit_buffer |-> bit_buffer,
     packets_received |-> packets_received + 1,
     ret |-> Some(info)]

\* A success that leaves the end marker in the buffer.
Accept_keeps_end_marker(bit_buffer, packets_received, end_marker_end, info) ==
    [bit_buffer |-> PopLeft(bit_buffer, end_marker_end - Len(END_MARKER)),
     packets_received |-> packets_received + 1,
     ret |-> Some(info)]

\* The result of a successful decode: the counter goes up by one, the bits
\* through the end marker are popped and the packet is returned.
Accept(bit_buffer, packets_received, end_marker_end, info) ==
    [bit_buffer |-> PopLeft(bit_buffer, end_marker_end),
     packets_received |-> packets_received + 1,
     ret |-> Some(info)]

\* try_decode_packet from the decoded header on: the body of its try block.
\* Its value is ValueError when one of the two decode_bytes calls raises.
DecodeCandidate(bit_buffer, packets_received, preamble_pos, header_end, header) ==
  IF header = ValueError THEN ValueError
  ELSE IF Len(header.bytes) < HEADER_LENGTH
  THEN Reject(bit_buffer, packets_received, 0)
  ELSE
    LET header_bytes == header.bytes
        header_errors == header.total_errors
        payload_length == header_bytes[1] * 256 + header_bytes[2]
        sequence_number == header_bytes[3]
        payload_start == header_end
        payload_end == payload_start + payload_length * 14
        end_marker_start == payload_end
        end_marker_end == end_marker_start + Len(END_MARKER)
        payload == decode_bytes(Slice(bit_buffer, payload_start, payload_end))
    IN  IF payload_length < MIN_PAYLOAD_LENGTH \/ payload_length > MAX_PAYLOAD_LENGTH
        THEN Reject(bit_buffer, packets_received, preamble_pos + 1)
        ELSE IF end_marker_end > Len(bit_buffer)
        THEN Reject(bit_buffer, packets_received, 0)
        ELSE IF payload = ValueError
        THEN ValueError
        ELSE IF end_marker_errors(bit_buffer, end_marker_start) > 0
        THEN Reject(bit_buffer, packets_received, preamble_pos + 1)
        ELSE Accept(bit_buffer, packets_received, end_marker_end,
                    packet_info(sequence_number, payload_length, payload,
                                header_errors, end_marker_end, preamble_pos,
                                packets_received + 1))

\* except Exception: whatever the try block raised is answered by popping
\* preamble_pos + 1 bits and returning None.
ExceptException(outcome, bit_buffer, packets_received, preamble_pos) ==
    IF outcome = ValueError
    THEN Reject(bit_buffer, packets_received, preamble_pos + 1)
    ELSE outcome

\* try_decode_packet without its check that the start marker lies inside the
\* buffer: comparing a shorter slice with START_MARKER raises outside the
\* try block, and the ValueError reaches the caller.
try_decode_packet_no_start_room(bit_buffer, packets_received) ==
    IF Len(bit_buffer) < min_packet_size
    THEN Reject(bit_buffer, packets_received, 0)
    ELSE LET preamble_pos == find_pattern(bit_buffer, PREAMBLE, 0)
             expected_start_pos == preamble_pos + Len(PREAMBLE)
             header_start == expected_start_pos + Len(START_MARKER)
             header_end == header_start + HEADER_LENGTH * 14
             header == decode_bytes(Slice(bit_buffer, header_start, header_end))
         IN  IF preamble_pos = -1
             THEN Reject(bit_buffer, packets_received, 0)
             ELSE IF header_start > Len(bit_buffer)
             THEN [bit_buffer |-> bit_buffer, packets_received |-> packets_received,
                   ret |-> Raise(ValueError)]
             ELSE IF start_marker_errors(bit_buffer, expected_start_pos) > 0
             THEN Reject(bit_buffer, packets_received, preamble_pos + 1)
             ELSE IF header_end > Len(bit_buffer)
             THEN Reject(bit_buffer, packets_received, 0)
             ELSE ExceptException(
                      DecodeCandidate(bit_buffer, packets_received, preamble_pos,
                                      header_end, header),
                      bit_buffer, packets_received, preamble_pos)

\* PacketDecoder.try_decode_packet: the decoder's state after the call and
\* the value returned.
try_decode_packet(bit_buffer, packets_received) ==
    IF Len(bit_buffer) < min_packet_size
    THEN Reject(bit_buffer, packets_received, 0)
    ELSE LET preamble_pos == find_pattern(bit_buffer, PREAMBLE, 0)
             expected_start_pos == preamble_pos + Len(PREAMBLE)
             header_start == expected_start_pos + Len(START_MARKER)
             header_end == header_start + HEADER_LENGTH * 14
             header == decode_bytes(Slice(bit_buffer, header_start, header_end))
         IN  IF preamble_pos = -1
             THEN Reject(bit_buffer, packets_received, 0)
             ELSE IF header_start > Len(bit_buffer)
             THEN Reject(bit_buffer, packets_received, 0)
             ELSE IF start_marker_errors(bit_buffer, expected_start_pos) > 0
             THEN Reject(bit_buffer, packets_received, preamble_pos + 1)
             ELSE IF header_end > Len(bit_buffer)
             THEN Reject(bit_buffer, packets_received, 0)
             ELSE ExceptException(
                      DecodeCandidate(bit_buffer, packets_received, preamble_pos,
                                      header_end, header),
                      bit_buffer, packets_received, preamble_pos)

\* add_bits making its attempt before it appends the new bits.
add_bits_attempt_first(bit_buffer, packets_received, new_bits) ==
    LET r == try_decode_packet(bit_buffer, packets_received)
    IN  [r EXCEPT !.bit_buffer = Extend(@, new_bits)]

\* add_bits making a second attempt after a successful one and returning the
\* last packet decoded.
add_bits_attempts_twice(bit_buffer, packets_received, new_bits) ==
    LET first == try_decode_packet(Extend(bit_buffer, new_bits), packets_received)
        second == try_decode_packet(first.bit_buffer, first.packets_received)
    IN  IF first.ret = None \/ second.ret = None THEN first ELSE second

\* PacketDecoder.add_bits (debug printing aside): extend, then one attempt.
add_bits(bit_buffer, packets_received, new_bits) ==
    try_decode_packet(Extend(bit_buffer, new_bits), packets_received)

(***************************************************************************)
(* State.                                                                  *)
(*                                                                         *)
(* The PacketDecoder object: bit_buffer, packets_received.  Around it, the *)
(* last call made on it: op (which call), in_bits (the argument of         *)
(* add_bits), pre_buffer and pre_received (the object before the call),    *)
(* ret (the value returned), ops (calls made so far), and prev_call (the   *)
(* call before the last: which it was, what it returned and how many bits  *)
(* it removed from the buffer it made its attempt on), returned (how many  *)
(* calls have returned a packet so far) and fed (the bits handed to        *)
(* add_bits since the last clear, in order); stream_len (how many bits     *)
(* add_bits has been handed in all) and frames (for every packet returned  *)
(* so far, in order, the place of its frame in that stream of bits: the    *)
(* index of its first bit and the index after its last).                   *)
(*                                                                         *)
(* The radio link: tx (the arguments and outcome of the transmitter's      *)
(* build_packet or create_header), wire (the bits on the air), hit (what   *)
(* the channel did to                                                      *)
(* them), link_pc (the link's position).                                   *)
(*                                                                         *)
(* The codec under test: c_mode (nibble or bytes), c_data (4 data bits),   *)
(* c_bytes (a byte string), c_word (the encoded bits), c_flip (the bit the *)
(* channel flipped, -1 for none), c_hits (the bits the channel flipped in  *)
(* an encoded byte string), c_out (the decoder's result), c_pc.            *)
(*                                                                         *)
(* The receiver's slot for the latest packet: latest_packet and            *)
(* packet_lock ("free" or the thread that holds it); the bit-processing   *)
(* thread's position loop_pc and its local packet loop_packet; for every   *)
(* thread that calls get_latest_packet its position get_pc and its local   *)
(* packet get_packet; published (the packets stored in the slot so far)    *)
(* and got (what the calls of get_latest_packet read, in the order of      *)
(* their reads, each with the number of packets stored before it).         *)
(*                                                                         *)
(* find_pattern on its own: the arguments f_data, f_pattern, f_max_errors, *)
(* the result f_out and the position f_pc.                                 *)
(*                                                                         *)
(* The bit-processing thread's reading of the bit sink.  The bits the sink *)
(* collects are numbered 1, 2, ... in the order of their arrival: sink_len *)
(* (how many bits vector_sink_bits holds), collected (the number of the    *)
(* newest bit), collects (writes of the flowgraph so far), current_power   *)
(* (above or below power_threshold); the loop's locals signal_detected,    *)
(* last_bit_count and current_bits (the copy of the sink: its length and   *)
(* the number of its last bit) and its position bits_pc; passed (the runs  *)
(* of bits given to add_bits, in order, each by the numbers of its first   *)
(* and last bit), seen_top (the number of the newest bit the cursor has    *)
(* been moved over, or that reset_for_new_signal threw away) and lost (how *)
(* many bits went unread while signal_detected held: jumped over by the    *)
(* cursor in a round that passed bits on, or emptied out of the sink by    *)
(* the periodic reset).                                                    *)
(***************************************************************************)
VARIABLES bit_buffer, packets_received, op, in_bits, pre_buffer, pre_received,
          ret, ops, prev_call, returned, fed, stream_len, frames,
          tx, wire, hit, link_pc,
          c_mode, c_data, c_bytes, c_word, c_flip, c_hits, c_out, c_pc,
          latest_packet, packet_lock, loop_pc, loop_packet, get_pc, get_packet,
          published, got,
          f_data, f_pattern, f_max_errors, f_out, f_pc,
          sink_len, collected, collects, current_power, signal_detected,
          last_bit_count, current_bits, bits_pc, passed, seen_top, lost

decoder_vars == <<bit_buffer, packets_received, op, in_bits, pre_buffer,
                  pre_received, ret, ops, prev_call, returned, fed,
                  stream_len, frames>>

link_vars == <<tx, wire, hit, link_pc>>

codec_vars == <<c_mode, c_data, c_bytes, c_word, c_flip, c_hits, c_out, c_pc>>

mailbox_vars == <<latest_packet, packet_lock, loop_pc, loop_packet, get_pc,
                  get_packet, published, got>>

find_vars == <<f_data, f_pattern, f_max_errors, f_out, f_pc>>

cursor_vars == <<sink_len, collected, collects, current_power, signal_detected,
                 last_bit_count, current_bits, bits_pc, passed, seen_top, lost>>

vars == <<decoder_vars, link_vars, codec_vars, mailbox_vars, find_vars,
          cursor_vars>>

(***************************************************************************)
(* Bounds and inputs.                                                      *)
(***************************************************************************)

\* Calls made on one decoder.
MaxOps == 3

\* Length of the byte strings over ByteVals given to the codec.
MaxBytes == 2

\* Calls of get_latest_packet in one behaviour.
MaxGets == 3

\* find_pattern on its own: the longest data, the longest pattern and the
\* largest max_errors it is called with.
MaxData == 5

MaxPattern == 3

MaxErrors == 2

\* Writes of the flowgraph to the bit sink in one behaviour.
MaxCollects == 3

\* The most try_decode_packet calls made on one buffer without new bits.
MaxRetries == 6

\* The bit strings of at most n bits.
BitStrings(n) == UNION { [1..k -> {0, 1}] : k \in 0..n }

Zeros(n) == [k \in 1..n |-> 0]

\* data with the bit at Python index i inverted.
FlipAt(data, i) == [data EXCEPT ![i + 1] = Xor(@, 1)]

MsgHI == <<72, 73>>

MsgMin == <<255>>

\* The bits of a frame around its payload.
FrameOverhead ==
    Len(PREAMBLE) + Len(START_MARKER) + HEADER_LENGTH * 14 + Len(END_MARKER)

\* The longest message whose frame fits the decoder's buffer, and the
\* shortest whose frame does not.
MaxFit == (BUFFER_MAXLEN - FrameOverhead) \div 14

MsgFit == [k \in 1..MaxFit |-> (37 * k) % 256]

MsgOver == [k \in 1..(MaxFit + 1) |-> (37 * k) % 256]

\* The longest message build_packet accepts, and the shortest it refuses.
MsgMax == [k \in 1..MAX_PAYLOAD_LENGTH |-> (37 * k) % 256]

MsgTooLong == [k \in 1..(MAX_PAYLOAD_LENGTH + 1) |-> (37 * k) % 256]

FrameHI == build_packet(MsgHI, 5).packet_bits

FrameMin == build_packet(MsgMin, 255).packet_bits

\* A frame head that holds a valid header and lacks its last 12 bits.
HeadHI == Slice(FrameHI, 0, Len(FrameHI) - 12)

TailHI == Slice(FrameHI, Len(FrameHI) - 12, Len(FrameHI))

\* Preamble and start marker followed by a header announcing 300 bytes.
BadLen300 == PREAMBLE \o START_MARKER \o encode_bytes(<<1, 44, 9, 0>>)

\* A frame whose end marker has one wrong bit.
FrameBadEnd == FlipAt(FrameHI, Len(FrameHI) - 1)

\* A preamble with one wrong bit.
NearPreamble == FlipAt(PREAMBLE, Len(PREAMBLE) - 1)

\* What the bit source hands to add_bits in one call.
Inputs ==
    { FrameHI, FrameMin, HeadHI, TailHI, FrameBadEnd, BadLen300,
      PREAMBLE, PREAMBLE \o START_MARKER, NearPreamble, Zeros(30), Zeros(100) }

\* Preamble and start marker followed by a header announcing 60 bytes, and
\* by one announcing 8 bytes.
HeadLen60 == PREAMBLE \o START_MARKER \o encode_bytes(<<0, 60, 7, 0>>)

HeadLen8 == PREAMBLE \o START_MARKER \o encode_bytes(<<0, 8, 7, 0>>)

\* What one add_bits call hands to a new decoder that is then asked again
\* and again without new bits: bits that lead, then a frame or none, then
\* bits that follow.
LeadingBits ==
    { <<>>, <<1>>, <<1, 0>>, Zeros(30), PREAMBLE, NearPreamble, PREAMBLE \o START_MARKER,
      PREAMBLE \o PREAMBLE, BadLen300, FrameBadEnd, HeadLen60, HeadLen8 }

QueuedFrames == { <<>>, FrameHI, FrameMin }

TrailingBits == { <<>>, FrameMin, Zeros(30), Zeros(10) \o END_MARKER }

QueuedInputs ==
    { a \o f \o z : a \in LeadingBits, f \in QueuedFrames, z \in TrailingBits }

\* What the transmitter is asked to send.
Messages == { MsgHI, MsgMin, <<0, 165, 90>>, MsgFit, MsgOver, MsgMax, <<>>, MsgTooLong }

\* How many bits the sink has gathered when the loop looks at it.
ChunkSizes == { 250, 1000 }

\* The payload lengths create_header is asked for on its own.
HeaderLengths == { -1, 0, 1, 2, 255, 256, 300, 65536 }

\* Sequence numbers given to the builder: within a byte, and beyond it
\* (PacketTransmitter counts its packets up without a limit).
SeqNums == { 0, 5, 255, 256, 261 }

ByteVals == { 0, 72, 73, 165, 255 }

\* The threads that call get_latest_packet: the terminal display and the
\* live plot.
Consumers == { "terminal", "plot" }

ByteStrings ==
    { <<b>> : b \in 0..255 } \cup UNION { [1..n -> ByteVals] : n \in 0..MaxBytes }

Nibbles == [1..4 -> {0, 1}]

\* The arguments encode_4bits and decode_7bits are called with when the
\* caller does not keep to their lengths: every bit string of 0..8 bits.
AnyBits == UNION { [1..k -> {0, 1}] : k \in 0..8 }

\* The byte strings whose encoding the channel garbles.
StreamStrings == UNION { [1..n -> ByteVals] : n \in 0..MaxBytes }

\* The bits the channel may invert in an encoded byte string (Python
\* indices, one in each of the first six codewords), and how many bits it
\* may cut off its end.
HitPlaces == { 1, 9, 16, 26, 30, 40 }

Cuts == { 0, 1, 7, 13 }

(***************************************************************************)
(* The decoder driven by its bit source.                                   *)
(***************************************************************************)

DecoderInit ==
    /\ bit_buffer = <<>>
    /\ packets_received = 0
    /\ op = "init"
    /\ in_bits = <<>>
    /\ pre_buffer = <<>>
    /\ pre_received = 0
    /\ ret = None
    /\ ops = 0
    /\ prev_call = [op |-> "none", ret |-> None, popped |-> 0]
    /\ returned = 0
    /\ fed = <<>>
    /\ stream_len = 0
    /\ frames = <<>>

LinkIdle ==
    /\ tx = [message |-> <<>>, sequence_number |-> 0, payload_length |-> 0,
             raised |-> FALSE, header |-> <<>>, metadata |-> None]
    /\ wire = <<>>
    /\ hit = [kind |-> "none"]
    /\ link_pc = "idle"

CodecIdle ==
    /\ c_mode = "off"
    /\ c_data = <<0, 0, 0, 0>>
    /\ c_bytes = <<>>
    /\ c_word = <<>>
    /\ c_flip = -1
    /\ c_hits = {}
    /\ c_out = <<>>
    /\ c_pc = "off"

\* PacketQPSKReceiver.__init__: the slot for the latest packet is empty, its
\* lock is free, and no thread is inside get_latest_packet.
MailboxIdle ==
    /\ latest_packet = None
    /\ packet_lock = "free"
    /\ loop_pc = "run"
    /\ loop_packet = None
    /\ get_pc = [c \in Consumers |-> "idle"]
    /\ get_packet = [c \in Consumers |-> None]
    /\ published = <<>>
    /\ got = <<>>

CursorIdle ==
    /\ sink_len = 0
    /\ collected = 0
    /\ collects = 0
    /\ current_power = "below"
    /\ signal_detected = FALSE
    /\ last_bit_count = 0
    /\ current_bits = [len |-> 0, top |-> 0]
    /\ bits_pc = "off"
    /\ passed = <<>>
    /\ seen_top = 0
    /\ lost = [jumped |-> 0, emptied |-> 0]

FindIdle ==
    /\ f_data = <<>>
    /\ f_pattern = <<>>
    /\ f_max_errors = 0
    /\ f_out = -1
    /\ f_pc = "off"

\* The buffer on which the last call made its decode attempt.
AttemptBuffer == IF op = "add_bits" THEN Extend(pre_buffer, in_bits) ELSE pre_buffer

\* The number of bits the last call removed from that buffer.
Popped == Len(AttemptBuffer) - Len(bit_buffer)

\* The decoder after a call `name` with outcome r.
Called(name, bits, r) ==
    /\ prev_call' = [op |-> op, ret |-> ret, popped |-> Popped]
    /\ bit_buffer' = r.bit_buffer
    /\ packets_received' = r.packets_received
    /\ ret' = r.ret
    /\ op' = name
    /\ in_bits' = bits
    /\ pre_buffer' = bit_buffer
    /\ pre_received' = packets_received
    /\ ops' = ops + 1
    /\ returned' = IF r.ret = None THEN returned ELSE returned + 1
    /\ fed' = IF name = "clear" THEN <<>> ELSE fed \o bits
    /\ stream_len' = stream_len + Len(bits)
    /\ frames' =
          IF name = "clear" \/ Len(r.ret) # 1 THEN frames
          ELSE LET attempt == IF name = "add_bits" THEN Extend(bit_buffer, bits)
                              ELSE bit_buffer
                   first == stream_len + Len(bits) - Len(attempt)
                            + find_pattern(attempt, PREAMBLE, 0)
               IN  Append(frames, [first |-> first,
                                   end |-> first + r.ret[1].total_packet_bits])

\* packet_decoder.add_bits(new_bits)
AddBits ==
    /\ ops < MaxOps
    /\ \E new_bits \in Inputs :
          Called("add_bits", new_bits, add_bits(bit_buffer, packets_received, new_bits))
    /\ UNCHANGED <<link_vars, codec_vars, mailbox_vars, find_vars,
                   cursor_vars>>

\* packet_decoder.try_decode_packet()
TryDecodePacket ==
    /\ ops < MaxOps
    /\ Called("try_decode_packet", <<>>, try_decode_packet(bit_buffer, packets_received))
    /\ UNCHANGED <<link_vars, codec_vars, mailbox_vars, find_vars,
                   cursor_vars>>

\* A reset that also puts the packet counter back to zero.
ClearBuffer_resets_counter ==
    /\ ops < MaxOps
    /\ Called("clear", <<>>, [bit_buffer |-> <<>>, packets_received |-> 0,
                              ret |-> None])
    /\ UNCHANGED <<link_vars, codec_vars, mailbox_vars, find_vars,
                   cursor_vars>>

\* A reset that leaves the bit buffer as it is.
ClearBuffer_keeps_bits ==
    /\ ops < MaxOps
    /\ Called("clear", <<>>, [bit_buffer |-> bit_buffer,
                              packets_received |-> packets_received, ret |-> None])
    /\ UNCHANGED <<link_vars, codec_vars, mailbox_vars, find_vars,
                   cursor_vars>>

\* packet_decoder.bit_buffer.clear() of reset_for_new_signal
ClearBuffer ==
    /\ ops < MaxOps
    /\ Called("clear", <<>>, [bit_buffer |-> <<>>,
                              packets_received |-> packets_received, ret |-> None])
    /\ UNCHANGED <<link_vars, codec_vars, mailbox_vars, find_vars,
                   cursor_vars>>

Init ==
    DecoderInit /\ LinkIdle /\ CodecIdle /\ MailboxIdle /\ FindIdle /\ CursorIdle

Next == AddBits \/ TryDecodePacket \/ ClearBuffer

Spec == Init /\ [][Next]_vars

(***************************************************************************)
(* A new decoder given bits once and then asked again and again for a      *)
(* packet without new bits, as a caller does that drains the buffer.       *)
(***************************************************************************)

\* packet_decoder.add_bits(new_bits) on the new decoder
AddBitsOnce ==
    /\ op = "init"
    /\ \E new_bits \in QueuedInputs :
          Called("add_bits", new_bits, add_bits(bit_buffer, packets_received, new_bits))
    /\ UNCHANGED <<link_vars, codec_vars, mailbox_vars, find_vars,
                   cursor_vars>>

\* packet_decoder.try_decode_packet() with no bits added since the last call
TryDecodeAgain ==
    /\ op # "init"
    /\ ops <= MaxRetries
    /\ Called("try_decode_packet", <<>>, try_decode_packet(bit_buffer, packets_received))
    /\ UNCHANGED <<link_vars, codec_vars, mailbox_vars, find_vars,
                   cursor_vars>>

DrainNext == AddBitsOnce \/ TryDecodeAgain

\* One more call on a decoder that has been given its bits: the steps of
\* DrainNext that count a call after the first are the TryDecodeAgain steps,
\* and such a step is possible exactly when TryDecodeAgain is.
NextCall == op # "init" /\ ops <= MaxRetries /\ ops' = ops + 1

\* The caller keeps calling.
SpecDrain == Init /\ [][DrainNext]_vars /\ WF_ops(NextCall)

(***************************************************************************)
(* One frame over the radio link: the transmitter builds it, the channel   *)
(* may invert bits of it, and a fresh decoder is given the received bits   *)
(* in one add_bits call.                                                   *)
(***************************************************************************)

\* Python index in the frame of the first header bit.
HeaderStart == Len(PREAMBLE) + Len(START_MARKER)

\* Python index in the frame of the first payload bit.
PayloadStart == HeaderStart + HEADER_LENGTH * 14

\* The frame with, in every payload codeword, one bit inverted: bit qa of
\* the codewords at even places (0, 2, ...) and bit qb of those at odd places.
FlipPayload(frame, n_bytes, qa, qb) ==
    [k \in 1..Len(frame) |->
        LET i == k - 1 - PayloadStart
            q == IF (i \div 7) % 2 = 0 THEN qa ELSE qb
        IN  IF i >= 0 /\ i < 14 * n_bytes /\ i % 7 = q
            THEN Xor(frame[k], 1) ELSE frame[k]]

\* build_packet(message, sequence_number) at the transmitter
Transmit ==
    /\ link_pc = "idle"
    /\ \E message \in Messages, sequence_number \in SeqNums :
          LET r == build_packet(message, sequence_number)
              raised == r = ValueError
          IN  /\ tx' = [message |-> message, sequence_number |-> sequence_number,
                        payload_length |-> Len(message), raised |-> raised,
                        header |-> <<>>,
                        metadata |-> IF raised THEN None ELSE Some(Metadata(r))]
              /\ wire' = IF raised THEN <<>> ELSE r.packet_bits
              /\ link_pc' = IF raised THEN "raised" ELSE "built"
    /\ UNCHANGED <<hit, decoder_vars, codec_vars, mailbox_vars, find_vars,
                   cursor_vars>>

\* packet_builder.create_header(payload_length, sequence_number) on its own
CreateHeader ==
    /\ link_pc = "idle"
    /\ \E payload_length \in HeaderLengths, sequence_number \in SeqNums :
          LET r == create_header(payload_length, sequence_number)
              raised == r = ValueError
          IN  tx' = [message |-> <<>>, sequence_number |-> sequence_number,
                     payload_length |-> payload_length, raised |-> raised,
                     header |-> IF raised THEN <<>> ELSE r, metadata |-> None]
    /\ link_pc' = "header"
    /\ UNCHANGED <<wire, hit, decoder_vars, codec_vars, mailbox_vars, find_vars,
                   cursor_vars>>

\* The channel inverts one bit of the encoded header.
CorruptHeader ==
    /\ link_pc = "built"
    /\ \E p \in 0..(HEADER_LENGTH * 14 - 1) :
          /\ wire' = FlipAt(wire, HeaderStart + p)
          /\ hit' = [kind |-> "header", pos |-> p]
    /\ link_pc' = "corrupted"
    /\ UNCHANGED <<tx, decoder_vars, codec_vars, mailbox_vars, find_vars,
                   cursor_vars>>

\* The channel inverts one bit of every payload codeword.
CorruptPayload ==
    /\ link_pc = "built"
    /\ \E qa \in 0..6, qb \in 0..6 :
          /\ wire' = FlipPayload(wire, Len(tx.message), qa, qb)
          /\ hit' = [kind |-> "payload", qa |-> qa, qb |-> qb]
    /\ link_pc' = "corrupted"
    /\ UNCHANGED <<tx, decoder_vars, codec_vars, mailbox_vars, find_vars,
                   cursor_vars>>

\* packet_decoder.add_bits(received bits) on a new PacketDecoder
Receive ==
    /\ link_pc \in {"built", "corrupted"}
    /\ Called("add_bits", wire, add_bits(bit_buffer, packets_received, wire))
    /\ link_pc' = "received"
    /\ UNCHANGED <<tx, wire, hit, codec_vars, mailbox_vars, find_vars,
                   cursor_vars>>

\* packet_decoder.add_bits(new_bits) with the next bits of the frame: the
\* bit-processing loop hands over what the sink gathered since its last round.
ReceiveChunk ==
    /\ link_pc \in {"built", "streaming"}
    /\ \E n \in ChunkSizes :
          LET new_bits == Slice(wire, 0, n)
              rest == Slice(wire, n, Len(wire))
          IN  /\ Called("add_bits", new_bits,
                        add_bits(bit_buffer, packets_received, new_bits))
              /\ wire' = rest
              /\ link_pc' = IF rest = <<>> THEN "streamed" ELSE "streaming"
    /\ UNCHANGED <<tx, hit, codec_vars, mailbox_vars, find_vars,
                   cursor_vars>>

LinkNext ==
    \/ Transmit \/ CreateHeader \/ CorruptHeader \/ CorruptPayload
    \/ Receive \/ ReceiveChunk

SpecLink == Init /\ [][LinkNext]_vars

(***************************************************************************)
(* The codec on its own: a nibble through encode_4bits, the channel and    *)
(* decode_7bits, or a byte string through encode_bytes and decode_bytes.   *)
(***************************************************************************)

CodecInit ==
    /\ \/ c_mode = "nibble" /\ c_data \in Nibbles /\ c_bytes = <<>>
       \/ c_mode = "bytes" /\ c_data = <<0, 0, 0, 0>> /\ c_bytes \in ByteStrings
       \/ c_mode = "stream" /\ c_data = <<0, 0, 0, 0>> /\ c_bytes \in StreamStrings
       \/ c_mode \in {"any_encode", "any_decode"} /\ c_data \in AnyBits
          /\ c_bytes = <<>>
    /\ c_word = <<>>
    /\ c_flip = -1
    /\ c_hits = {}
    /\ c_out = <<>>
    /\ c_pc = "start"

\* encode_4bits(c_data)
Encode4Bits ==
    /\ c_mode = "nibble" /\ c_pc = "start"
    /\ c_word' = encode_4bits(c_data)
    /\ c_pc' = "encoded"
    /\ UNCHANGED <<c_mode, c_data, c_bytes, c_flip, c_out, c_hits, decoder_vars, link_vars,
                 mailbox_vars, find_vars,
                   cursor_vars>>

\* The channel inverts bit p of the codeword.
FlipBit ==
    /\ c_mode = "nibble" /\ c_pc = "encoded" /\ c_flip = -1
    /\ \E p \in 0..6 :
          /\ c_word' = FlipAt(c_word, p)
          /\ c_flip' = p
    /\ UNCHANGED <<c_mode, c_data, c_bytes, c_out, c_pc, c_hits, decoder_vars, link_vars,
                 mailbox_vars, find_vars,
                   cursor_vars>>

\* decode_7bits(c_word)
Decode7Bits ==
    /\ c_mode = "nibble" /\ c_pc = "encoded"
    /\ c_out' = decode_7bits(c_word)
    /\ c_pc' = "decoded"
    /\ UNCHANGED <<c_mode, c_data, c_bytes, c_word, c_flip, c_hits, decoder_vars, link_vars,
                 mailbox_vars, find_vars,
                   cursor_vars>>

\* encode_bytes(c_bytes)
EncodeBytes ==
    /\ c_mode \in {"bytes", "stream"} /\ c_pc = "start"
    /\ c_word' = encode_bytes(c_bytes)
    /\ c_pc' = "encoded"
    /\ UNCHANGED <<c_mode, c_data, c_bytes, c_flip, c_out, c_hits, decoder_vars, link_vars,
                 mailbox_vars, find_vars,
                   cursor_vars>>

\* The channel inverts some bits of the encoded byte string, at most one in
\* a codeword, and cuts some bits off its end.
Garble ==
    /\ c_mode = "stream" /\ c_pc = "encoded"
    /\ \E hits \in SUBSET {p \in HitPlaces : p < Len(c_word)}, cut \in Cuts :
          /\ cut <= Len(c_word)
          /\ c_word' = [k \in 1..(Len(c_word) - cut) |->
                           IF (k - 1) \in hits THEN Xor(c_word[k], 1) ELSE c_word[k]]
          /\ c_hits' = hits
    /\ c_pc' = "garbled"
    /\ UNCHANGED <<c_mode, c_data, c_bytes, c_flip, c_out, decoder_vars, link_vars,
                   mailbox_vars, find_vars,
                   cursor_vars>>

\* decode_bytes(c_word)
DecodeBytes ==
    /\ \/ c_mode = "bytes" /\ c_pc = "encoded"
       \/ c_mode = "stream" /\ c_pc = "garbled"
    /\ c_out' = decode_bytes(c_word)
    /\ c_pc' = "decoded"
    /\ UNCHANGED <<c_mode, c_data, c_bytes, c_word, c_flip, c_hits, decoder_vars, link_vars,
                 mailbox_vars, find_vars,
                   cursor_vars>>

\* encode_4bits(c_data) for a c_data of any length
Encode4BitsAny ==
    /\ c_mode = "any_encode" /\ c_pc = "start"
    /\ c_out' = encode_4bits(c_data)
    /\ c_pc' = "called"
    /\ UNCHANGED <<c_mode, c_data, c_bytes, c_word, c_flip, c_hits, decoder_vars,
                   link_vars, mailbox_vars, find_vars,
                   cursor_vars>>

\* decode_7bits(c_data) for a c_data of any length
Decode7BitsAny ==
    /\ c_mode = "any_decode" /\ c_pc = "start"
    /\ c_out' = decode_7bits(c_data)
    /\ c_pc' = "called"
    /\ UNCHANGED <<c_mode, c_data, c_bytes, c_word, c_flip, c_hits, decoder_vars,
                   link_vars, mailbox_vars, find_vars,
                   cursor_vars>>

CodecNext ==
    \/ Encode4Bits \/ FlipBit \/ Decode7Bits \/ EncodeBytes \/ Garble \/ DecodeBytes
    \/ Encode4BitsAny \/ Decode7BitsAny

InitCodec ==
    DecoderInit /\ LinkIdle /\ CodecInit /\ MailboxIdle /\ FindIdle /\ CursorIdle

SpecCodec == InitCodec /\ [][CodecNext]_vars

(***************************************************************************)
(* Properties of the codec (SpecCodec).                                    *)
(***************************************************************************)

NibbleDecoded == c_mode = "nibble" /\ c_pc = "decoded"

BytesDecoded == c_mode = "bytes" /\ c_pc = "decoded"

\* C1: a codeword of encode_4bits with any one of its 7 bits inverted is
\* decoded by decode_7bits to the original 4 data bits, reported corrected.
C1_SingleBitErrorCorrected ==
    (NibbleDecoded /\ c_flip # -1)
        => (c_out.data_bits = c_data /\ c_out.error_corrected = TRUE)

\* C3: an unmodified codeword of encode_4bits is decoded by decode_7bits to
\* its data bits and is not reported corrected.
C3_CleanCodewordRoundTrip ==
    (NibbleDecoded /\ c_flip = -1)
        => (c_out.data_bits = c_data /\ c_out.error_corrected = FALSE)

C3_Witness ==
    /\ NibbleDecoded /\ c_flip = -1
    /\ c_data = <<1, 0, 1, 1>>
    /\ c_word = <<1, 0, 1, 1, 0, 1, 0>>
    /\ c_out.data_bits = <<1, 0, 1, 1>>

\* C4: decode_bytes of encode_bytes of any byte string, the empty one
\* included, is that byte string with an error count of 0.
C4_BytesRoundTrip ==
    BytesDecoded => (c_out.bytes = c_bytes /\ c_out.total_errors = 0)

C4_Witness ==
    /\ BytesDecoded
    /\ c_bytes = <<72, 165>>
    /\ Len(c_word) = 28
    /\ c_out.bytes = <<72, 165>>

(***************************************************************************)
(* Properties of a frame sent over the link (SpecLink).                    *)
(***************************************************************************)

\* The returned packet carries the transmitted message, sequence number
\* and payload length.
ReceivedAsSent ==
    /\ ret # None
    /\ ret[1].payload = tx.message
    /\ ret[1].sequence_number = tx.sequence_number
    /\ ret[1].payload_length = Len(tx.message)

\* C2: the exact bits of build_packet(message, seq), for a message of 1 to
\* 255 bytes and seq in 0..255, given in one add_bits call to a new decoder,
\* come back as a packet with that payload, sequence number and payload
\* length and with header_errors = 0 and payload_errors = 0.
C2_FrameRoundTrip ==
    (link_pc = "received" /\ hit.kind = "none" /\ tx.sequence_number \in 0..255)
        => (ReceivedAsSent /\ ret[1].header_errors = 0 /\ ret[1].payload_errors = 0)

\* C5: a frame that fits the buffer, with one bit inverted in its encoded
\* header or one bit inverted in every payload codeword, still comes back
\* as a packet with the original payload, sequence number and payload
\* length, and with a nonzero header_errors resp. payload_errors.
C5_SingleFlipsRecovered ==
    (/\ link_pc = "received" /\ hit.kind # "none" /\ Len(tx.message) <= MaxFit
     /\ tx.sequence_number \in 0..255)
        => /\ ReceivedAsSent
           /\ hit.kind = "header" => ret[1].header_errors > 0
           /\ hit.kind = "payload" => ret[1].payload_errors > 0

(***************************************************************************)
(* Properties of the decoder driven by its bit source (Spec).              *)
(***************************************************************************)

\* The last call made a decode attempt.
Attempted == op \in {"add_bits", "try_decode_packet"}

\* buf holds pattern exactly at Python index i.
ExactAt(buf, pattern, i) ==
    /\ i >= 0
    /\ i + Len(pattern) <= Len(buf)
    /\ \A k \in 1..Len(pattern) : buf[i + k] = pattern[k]

HasPreamble(buf) == \E i \in 0..(Len(buf) - Len(PREAMBLE)) : ExactAt(buf, PREAMBLE, i)

\* The Python index of the earliest exact PREAMBLE of buf.
EarliestPreamble(buf) ==
    CHOOSE i \in 0..(Len(buf) - Len(PREAMBLE)) :
        /\ ExactAt(buf, PREAMBLE, i)
        /\ \A j \in 0..(i - 1) : ~ExactAt(buf, PREAMBLE, j)

\* The bytes decoded from the 56 bits that follow a start marker at q + 16.
HeaderAt(buf, q) ==
    decode_bytes(Slice(buf, q + HeaderStart, q + PayloadStart)).bytes

\* The payload length announced by that header.
LengthAt(buf, q) == HeaderAt(buf, q)[1] * 256 + HeaderAt(buf, q)[2]

\* buf holds, from its earliest preamble at q on, the start marker and a
\* whole header.
HeaderPresent(buf, q) ==
    /\ ExactAt(buf, START_MARKER, q + Len(PREAMBLE))
    /\ q + PayloadStart <= Len(buf)

\* C6: a returned packet is fully validated: payload_length is in 1..255,
\* the payload has payload_length bytes, and the buffer of the attempt held,
\* from its earliest exact PREAMBLE on, PREAMBLE, START_MARKER, the 56
\* header bits announcing that length and sequence number, the
\* 14 * payload_length bits of that payload and END_MARKER.
C6_ReturnedPacketValidated ==
    ret # None =>
        LET p == ret[1]
            b == AttemptBuffer
            n == p.payload_length
        IN  /\ Attempted
            /\ n >= 1 /\ n <= 255
            /\ Len(p.payload) = n
            /\ HasPreamble(b)
            /\ LET q == EarliestPreamble(b)
               IN  /\ HeaderPresent(b, q)
                   /\ LengthAt(b, q) = n
                   /\ HeaderAt(b, q)[3] = p.sequence_number
                   /\ q + FrameOverhead + 14 * n <= Len(b)
                   /\ p.payload = decode_bytes(Slice(b, q + PayloadStart,
                                                     q + PayloadStart + 14 * n)).bytes
                   /\ ExactAt(b, END_MARKER, q + PayloadStart + 14 * n)

C6_Witness ==
    /\ ret # None
    /\ op = "try_decode_packet"
    /\ EarliestPreamble(AttemptBuffer) > 0
    /\ ret[1].payload = MsgHI
    /\ ret[1].packet_number = 1

\* The last two calls were decode attempts with no bits added in between,
\* and the first of them returned None.
SecondAttemptAfterNone ==
    /\ op = "try_decode_packet"
    /\ prev_call.op \in {"add_bits", "try_decode_packet"}
    /\ prev_call.ret = None

\* C7 as claimed: after an attempt that returned None, a second attempt with
\* no bits added returns None and leaves the buffer as the first left it.
C7_SecondAttemptIdle ==
    SecondAttemptAfterNone => (ret = None /\ bit_buffer = pre_buffer)

\* C7 as amended: after an attempt that returned None and removed no bit
\* from the buffer, a second attempt with no bits added returns None and
\* leaves the buffer and the packet counter unchanged.
C7_SecondAttemptIdleIfNothingPopped ==
    (SecondAttemptAfterNone /\ prev_call.popped = 0)
        => (ret = None /\ bit_buffer = pre_buffer /\ packets_received = pre_received)

C7_Witness ==
    /\ SecondAttemptAfterNone
    /\ prev_call.op = "add_bits"
    /\ prev_call.popped = 0
    /\ HasPreamble(bit_buffer)
    /\ Len(bit_buffer) >= min_packet_size
    /\ ret = None

\* The attempt on buf lacks data: buf is shorter than the minimum frame, or
\* its earliest preamble is followed by fewer than 8 bits, or by the start
\* marker and fewer than 56 bits, or by the start marker and a header whose
\* length is in 1..255 and fewer bits than the frame of that length.
ShortBuffer(buf) == Len(buf) < FrameOverhead + 14 * MIN_PAYLOAD_LENGTH

NoRoomForStart(buf, q) == q + HeaderStart > Len(buf)

NoRoomForHeader(buf, q) ==
    /\ ExactAt(buf, START_MARKER, q + Len(PREAMBLE))
    /\ q + PayloadStart > Len(buf)

NoRoomForFrame(buf, q) ==
    /\ HeaderPresent(buf, q)
    /\ LengthAt(buf, q) >= 1 /\ LengthAt(buf, q) <= 255
    /\ q + FrameOverhead + 14 * LengthAt(buf, q) > Len(buf)

InsufficientData(buf) ==
    \/ ShortBuffer(buf)
    \/ /\ HasPreamble(buf)
       /\ LET q == EarliestPreamble(buf)
          IN  NoRoomForStart(buf, q) \/ NoRoomForHeader(buf, q) \/ NoRoomForFrame(buf, q)

\* C8: an attempt on a buffer that merely lacks data returns None and
\* leaves bit_buffer and packets_received unchanged.
C8_InsufficientDataKeepsBuffer ==
    (Attempted /\ InsufficientData(AttemptBuffer))
        => (ret = None /\ bit_buffer = AttemptBuffer /\ packets_received = pre_received)

C8_Witness ==
    /\ Attempted
    /\ ~ShortBuffer(AttemptBuffer)
    /\ HasPreamble(AttemptBuffer)
    /\ EarliestPreamble(AttemptBuffer) > 0
    /\ NoRoomForFrame(AttemptBuffer, EarliestPreamble(AttemptBuffer))
    /\ bit_buffer = AttemptBuffer

\* C9: an attempt on a buffer of any length that holds no exact PREAMBLE
\* returns None and leaves the buffer unchanged.
C9_NoPreambleKeepsBuffer ==
    (Attempted /\ ~HasPreamble(AttemptBuffer))
        => (ret = None /\ bit_buffer = AttemptBuffer)

C9_Witness ==
    /\ Attempted
    /\ ~HasPreamble(AttemptBuffer)
    /\ ~ShortBuffer(AttemptBuffer)
    /\ \E k \in 1..Len(AttemptBuffer) : AttemptBuffer[k] = 1
    /\ bit_buffer = AttemptBuffer

\* The last call was add_bits(BadLen300) on a new decoder.
FedBadLenToFresh ==
    /\ op = "add_bits"
    /\ pre_buffer = <<>> /\ pre_received = 0
    /\ in_bits = BadLen300

\* The attempt on buf meets, at its earliest preamble, a start marker and
\* a header announcing 300 bytes.
MeetsLength300(buf) ==
    /\ HasPreamble(buf)
    /\ HeaderPresent(buf, EarliestPreamble(buf))
    /\ LengthAt(buf, EarliestPreamble(buf)) = 300

\* C10 as claimed: PREAMBLE, START_MARKER and a header of decoded length 300
\* given to a new decoder returns None and removes preamble_position + 1
\* bits (here 1 bit) from the head of the buffer.
C10_BadLengthDiscards ==
    FedBadLenToFresh => (ret = None /\ bit_buffer = Slice(in_bits, 1, Len(in_bits)))

\* C10 as amended: given alone to a new decoder these 80 bits return None and
\* all stay in the buffer, which is shorter than the minimum frame; an
\* attempt on a buffer of at least 102 bits that meets this header at its
\* earliest preamble returns None and removes exactly preamble_position + 1
\* bits from the head.
C10_BadLengthDiscardsOnceMinFrame ==
    /\ FedBadLenToFresh => (ret = None /\ bit_buffer = in_bits)
    /\ (Attempted /\ ~ShortBuffer(AttemptBuffer) /\ MeetsLength300(AttemptBuffer))
          => /\ ret = None
             /\ bit_buffer = Slice(AttemptBuffer, EarliestPreamble(AttemptBuffer) + 1,
                                   Len(AttemptBuffer))
             /\ packets_received = pre_received

C10_Witness ==
    /\ Attempted
    /\ ~ShortBuffer(AttemptBuffer)
    /\ MeetsLength300(AttemptBuffer)
    /\ EarliestPreamble(AttemptBuffer) > 0
    /\ Popped = EarliestPreamble(AttemptBuffer) + 1


\* The keys of the dictionary a successful attempt returns.
PacketInfoKeys ==
    {"sequence_number", "payload_length", "payload", "header_errors",
     "payload_errors", "total_packet_bits", "packet_number"}

\* From its earliest exact PREAMBLE on, buf holds a frame that is malformed:
\* the start marker, the announced length or the end marker is wrong.
Malformed(buf) ==
    /\ HasPreamble(buf)
    /\ LET q == EarliestPreamble(buf)
       IN  \/ /\ q + HeaderStart <= Len(buf)
              /\ ~ExactAt(buf, START_MARKER, q + Len(PREAMBLE))
           \/ /\ HeaderPresent(buf, q)
              /\ LengthAt(buf, q) \notin MIN_PAYLOAD_LENGTH..MAX_PAYLOAD_LENGTH
           \/ /\ HeaderPresent(buf, q)
              /\ LengthAt(buf, q) \in MIN_PAYLOAD_LENGTH..MAX_PAYLOAD_LENGTH
              /\ q + FrameOverhead + 14 * LengthAt(buf, q) <= Len(buf)
              /\ ~ExactAt(buf, END_MARKER, q + PayloadStart + 14 * LengthAt(buf, q))

\* C11: whatever bits are fed, interleaved with clears and extra attempts,
\* no call raises to its caller: every call returns None or a packet
\* dictionary, a clear returns nothing, and an attempt on a buffer whose
\* earliest frame is malformed (wrong start marker, bad length, wrong end
\* marker) returns None.
C11_CallsReturnPacketOrNone ==
    /\ ret = None \/ (Len(ret) = 1 /\ DOMAIN ret[1] = PacketInfoKeys)
    /\ op = "clear" => ret = None
    /\ (Attempted /\ Malformed(AttemptBuffer)) => ret = None

C11_Witness ==
    /\ op = "add_bits"
    /\ prev_call.op = "clear"
    /\ Len(AttemptBuffer) >= FrameOverhead + 14
    /\ Malformed(AttemptBuffer)
    /\ Popped > 0
    /\ ret = None

(***************************************************************************)
(* Properties of the packet builder (SpecLink).                            *)
(***************************************************************************)

\* C12: for a message of N bytes (1..255) and a sequence number s, the
\* frame build_packet returns is PREAMBLE, START_MARKER, the Hamming
\* encoding of the header bytes [N >> 8, N & 0xFF, s, 0] (56 bits), the
\* Hamming encoding of the message (14 * N bits) and END_MARKER, 88 + 14 * N
\* bits in all, and the section lengths of its metadata add up to
\* total_bits, the length of the frame.
C12_FrameLayout ==
    (link_pc = "built" /\ tx.sequence_number \in 0..255) =>
        LET N == Len(tx.message)
            s == tx.sequence_number
            m == tx.metadata[1]
        IN  /\ N >= 1 /\ N <= 255
            /\ Len(wire) = 88 + 14 * N
            /\ Slice(wire, 0, 16) = PREAMBLE
            /\ Slice(wire, 16, 24) = START_MARKER
            /\ Slice(wire, 24, 80) = encode_bytes(<<N \div 256, N % 256, s, 0>>)
            /\ Slice(wire, 80, 80 + 14 * N) = encode_bytes(tx.message)
            /\ Slice(wire, 80 + 14 * N, 88 + 14 * N) = END_MARKER
            /\ m.preamble_bits = 16 /\ m.start_marker_bits = 8
            /\ m.header_bits = 56 /\ m.payload_bits = 14 * N
            /\ m.end_marker_bits = 8
            /\ m.total_bits = Len(wire)
            /\ m.preamble_bits + m.start_marker_bits + m.header_bits
                 + m.payload_bits + m.end_marker_bits = m.total_bits
            /\ m.payload_length = N /\ m.sequence_number = s

C12_Witness ==
    /\ link_pc = "built"
    /\ Len(tx.message) = 255
    /\ tx.sequence_number = 255
    /\ Len(wire) = 3658

\* C13: create_header raises ValueError for every payload length outside
\* 1..255 and returns a 4-byte header for every length inside; build_packet
\* on an empty message or on one longer than 255 bytes raises and yields
\* neither frame bits nor metadata, and builds a frame otherwise.
C13_LengthLimitsEnforced ==
    /\ link_pc = "header" =>
           IF tx.payload_length >= 1 /\ tx.payload_length <= 255
           THEN ~tx.raised /\ Len(tx.header) = 4
           ELSE tx.raised /\ tx.header = <<>>
    /\ link_pc \in {"built", "raised"} =>
           IF Len(tx.message) >= 1 /\ Len(tx.message) <= 255
           THEN link_pc = "built" /\ ~tx.raised /\ wire # <<>> /\ tx.metadata # None
           ELSE link_pc = "raised" /\ tx.raised /\ wire = <<>> /\ tx.metadata = None

C13_Witness ==
    /\ link_pc = "raised"
    /\ Len(tx.message) = 256
    /\ wire = <<>>

(***************************************************************************)
(* More properties of the decoder driven by its bit source (Spec).         *)
(***************************************************************************)

\* C14: the k-th packet a decoder returns carries packet_number k: the
\* counter packets_received equals the number of packets returned so far
\* (0 at first), the packet just returned carries that number, and a call
\* that returns None (an attempt or a clear) leaves the counter as it was.
C14_PacketNumberCountsReturns ==
    /\ packets_received = returned
    /\ ret # None => /\ ret[1].packet_number = returned
                     /\ packets_received = pre_received + 1
    /\ ret = None => packets_received = pre_received

C14_Witness ==
    /\ ret # None
    /\ ret[1].packet_number = 2
    /\ prev_call.op = "clear"
    /\ returned = 2

(***************************************************************************)
(* The slot for the latest packet: the bit-processing thread stores every  *)
(* packet add_bits returns, and the display threads fetch with             *)
(* get_latest_packet.  A statement of a with-block is one step.            *)
(***************************************************************************)

\* What the bit-processing thread reads from the bit sink in one round.
LoopInputs == { FrameHI, Zeros(30) }

\* packet = self.packet_decoder.add_bits(new_bits); if packet: ...
LoopAddBits ==
    /\ loop_pc = "run"
    /\ ops < MaxOps
    /\ \E new_bits \in LoopInputs :
          LET r == add_bits(bit_buffer, packets_received, new_bits)
          IN  /\ Called("add_bits", new_bits, r)
              /\ loop_packet' = r.ret
              /\ loop_pc' = IF r.ret # None THEN "acquire" ELSE "run"
    /\ UNCHANGED <<latest_packet, packet_lock, get_pc, get_packet, published, got,
                   link_vars, codec_vars, find_vars,
                   cursor_vars>>

\* The packet stored without taking packet_lock.
LoopAcquire_no_lock ==
    /\ loop_pc = "acquire"
    /\ latest_packet' = loop_packet
    /\ published' = Append(published, loop_packet[1])
    /\ loop_pc' = "run"
    /\ UNCHANGED <<packet_lock, loop_packet, get_pc, get_packet, got,
                   decoder_vars, link_vars, codec_vars, find_vars,
                   cursor_vars>>

\* with self.packet_lock: (bit-processing thread)
LoopAcquire ==
    /\ loop_pc = "acquire"
    /\ packet_lock = "free"
    /\ packet_lock' = "loop"
    /\ loop_pc' = "store"
    /\ UNCHANGED <<latest_packet, loop_packet, get_pc, get_packet, published, got,
                   decoder_vars, link_vars, codec_vars, find_vars,
                   cursor_vars>>

\* self.latest_packet = packet
LoopStore ==
    /\ loop_pc = "store"
    /\ latest_packet' = loop_packet
    /\ published' = Append(published, loop_packet[1])
    /\ loop_pc' = "release"
    /\ UNCHANGED <<packet_lock, loop_packet, get_pc, get_packet, got,
                   decoder_vars, link_vars, codec_vars, find_vars,
                   cursor_vars>>

\* The end of the with-block.
LoopRelease ==
    /\ loop_pc = "release"
    /\ packet_lock' = "free"
    /\ loop_pc' = "run"
    /\ UNCHANGED <<latest_packet, loop_packet, get_pc, get_packet, published, got,
                   decoder_vars, link_vars, codec_vars, find_vars,
                   cursor_vars>>

\* get_latest_packet entered without taking packet_lock.
GetAcquire_no_lock(c) ==
    /\ get_pc[c] = "idle"
    /\ Len(got) < MaxGets
    /\ get_pc' = [get_pc EXCEPT ![c] = "read"]
    /\ UNCHANGED <<latest_packet, packet_lock, loop_pc, loop_packet, get_packet,
                   published, got, decoder_vars, link_vars, codec_vars, find_vars,
                   cursor_vars>>

\* get_latest_packet, with self.packet_lock: (thread c)
GetAcquire(c) ==
    /\ get_pc[c] = "idle"
    /\ Len(got) < MaxGets
    /\ packet_lock = "free"
    /\ packet_lock' = c
    /\ get_pc' = [get_pc EXCEPT ![c] = "read"]
    /\ UNCHANGED <<latest_packet, loop_pc, loop_packet, get_packet, published, got,
                   decoder_vars, link_vars, codec_vars, find_vars,
                   cursor_vars>>

\* packet = self.latest_packet
GetRead(c) ==
    /\ get_pc[c] = "read"
    /\ get_packet' = [get_packet EXCEPT ![c] = latest_packet]
    /\ got' = Append(got, [by |-> c, packet |-> latest_packet,
                            seen |-> Len(published)])
    /\ get_pc' = [get_pc EXCEPT ![c] = "clear"]
    /\ UNCHANGED <<latest_packet, packet_lock, loop_pc, loop_packet, published,
                   decoder_vars, link_vars, codec_vars, find_vars,
                   cursor_vars>>

\* self.latest_packet = None
GetClear(c) ==
    /\ get_pc[c] = "clear"
    /\ latest_packet' = None
    /\ get_pc' = [get_pc EXCEPT ![c] = "return"]
    /\ UNCHANGED <<packet_lock, loop_pc, loop_packet, get_packet, published, got,
                   decoder_vars, link_vars, codec_vars, find_vars,
                   cursor_vars>>

\* return packet, which leaves the with-block
GetReturn(c) ==
    /\ get_pc[c] = "return"
    /\ packet_lock' = "free"
    /\ get_pc' = [get_pc EXCEPT ![c] = "idle"]
    /\ UNCHANGED <<latest_packet, loop_pc, loop_packet, get_packet, published, got,
                   decoder_vars, link_vars, codec_vars, find_vars,
                   cursor_vars>>

GetLatestPacket(c) == GetAcquire(c) \/ GetRead(c) \/ GetClear(c) \/ GetReturn(c)

MailboxNext ==
    \/ LoopAddBits \/ LoopAcquire \/ LoopStore \/ LoopRelease
    \/ \E c \in Consumers : GetLatestPacket(c)

SpecMailbox == Init /\ [][MailboxNext]_vars

\* The number of packets stored before the read of the i-th call of
\* get_latest_packet, and before the read of the call ahead of it.
SeenBy(i) == got[i].seen

SeenBefore(i) == IF i = 1 THEN 0 ELSE got[i - 1].seen

\* C15: the slot is a one-place mailbox in which the latest packet wins: a
\* call of get_latest_packet returns the last of the packets stored since
\* the call before it, none of the packets stored ahead of that one is
\* ever returned, and a call with no packet stored since the call before
\* returns None.
C15_LatestWinsMailbox ==
    \A i \in 1..Len(got) :
        /\ got[i].packet = IF SeenBy(i) > SeenBefore(i)
                           THEN Some(published[SeenBy(i)])
                           ELSE None
        /\ \A k \in 1..Len(published) :
               got[i].packet = Some(published[k]) => k = SeenBy(i)

C15_Witness ==
    /\ Len(got) = 2
    /\ Len(published) = 2
    /\ got[1].seen = 2
    /\ got[1].packet = Some(published[2])
    /\ got[2].packet = None
    /\ got[1].by # got[2].by

(***************************************************************************)
(* The capacity of the bit buffer (SpecLink).                              *)
(***************************************************************************)

\* The link has handed bits of the frame to the decoder.
Delivering == link_pc \in {"received", "streaming", "streamed"}

\* C16: with a buffer of 1000 bits, every packet the decoder returns has
\* 88 + 14 * payload_length <= 1000, that is payload_length <= 65, and the
\* frame of a message of 66..255 bytes is never recovered, in whatever
\* chunks its bits are handed to add_bits.
C16_OnlyFramesThatFitAreReturned ==
    /\ ret # None => /\ 88 + 14 * ret[1].payload_length <= 1000
                     /\ ret[1].payload_length <= 65
    /\ (Delivering /\ Len(tx.message) >= 66 /\ Len(tx.message) <= 255)
           => ret = None /\ returned = 0

C16_Witness ==
    /\ link_pc = "streamed"
    /\ Len(tx.message) = 65
    /\ Len(fed) = 998 /\ Len(in_bits) < 998
    /\ ret # None
    /\ ret[1].payload = tx.message

\* The last n bits of s, all of s when it is shorter.
MostRecent(s, n) ==
    IF Len(s) <= n THEN s ELSE [k \in 1..n |-> s[Len(s) - n + k]]

\* C17: after every add_bits the buffer holds at most 1000 bits, and when
\* appending would exceed that, the oldest bits are the ones dropped: the
\* decode attempt of the call runs on the most recent 1000 bits of the
\* previous buffer followed by the new bits.
C17_BufferKeepsMostRecentBits ==
    /\ Len(bit_buffer) <= 1000
    /\ op = "add_bits" =>
           LET recent == MostRecent(pre_buffer \o in_bits, 1000)
               r == try_decode_packet(recent, pre_received)
           IN  /\ bit_buffer = r.bit_buffer
               /\ ret = r.ret
               /\ packets_received = r.packets_received

C17_Witness ==
    /\ op = "add_bits"
    /\ pre_buffer # <<>>
    /\ Len(pre_buffer) + Len(in_bits) > 1000
    /\ Len(bit_buffer) = 1000
    /\ bit_buffer = MostRecent(pre_buffer \o in_bits, 1000)

(***************************************************************************)
(* The reset of the decoder's buffer (Spec).                               *)
(***************************************************************************)

\* a is the tail end of b.
IsSuffix(a, b) ==
    /\ Len(a) <= Len(b)
    /\ \A k \in 1..Len(a) : a[k] = b[Len(b) - Len(a) + k]

\* bits holds, from Python index i on, a whole frame that decodes to packet p.
FrameOfAt(bits, p, i) ==
    /\ ExactAt(bits, PREAMBLE, i)
    /\ HeaderPresent(bits, i)
    /\ LengthAt(bits, i) = p.payload_length
    /\ HeaderAt(bits, i)[3] = p.sequence_number
    /\ i + FrameOverhead + 14 * p.payload_length <= Len(bits)
    /\ p.payload = decode_bytes(Slice(bits, i + PayloadStart,
                                      i + PayloadStart + 14 * p.payload_length)).bytes
    /\ ExactAt(bits, END_MARKER, i + PayloadStart + 14 * p.payload_length)

\* C18: a reset leaves the buffer empty whatever it held, a partial frame
\* included; the decode attempt right after it returns None; and no bit fed
\* before the reset has a part in a packet returned after it: what the
\* buffer holds is a tail end of the bits fed since the reset, and the frame
\* of a returned packet lies within those bits.
C18_ResetDropsPartialFrame ==
    /\ op = "clear" => bit_buffer = <<>> /\ ret = None
    /\ (prev_call.op = "clear" /\ op = "try_decode_packet")
           => ret = None /\ bit_buffer = <<>>
    /\ IsSuffix(bit_buffer, fed)
    /\ ret # None =>
           \E i \in 0..(Len(fed) - ret[1].total_packet_bits) :
               FrameOfAt(fed, ret[1], i)

C18_Witness ==
    /\ op = "add_bits"
    /\ in_bits = TailHI
    /\ prev_call.op = "clear"
    /\ prev_call.popped = Len(HeadHI)
    /\ fed = TailHI
    /\ ret = None

(***************************************************************************)
(* find_pattern on its own (SpecFind).                                     *)
(***************************************************************************)

FindInit ==
    /\ f_data \in BitStrings(MaxData)
    /\ f_pattern \in BitStrings(MaxPattern)
    /\ f_max_errors \in 0..MaxErrors
    /\ f_out = -1
    /\ f_pc = "start"

\* find_pattern(f_data, f_pattern, f_max_errors)
FindPattern ==
    /\ f_pc = "start"
    /\ f_out' = find_pattern(f_data, f_pattern, f_max_errors)
    /\ f_pc' = "done"
    /\ UNCHANGED <<f_data, f_pattern, f_max_errors, decoder_vars, link_vars,
                   codec_vars, mailbox_vars,
                   cursor_vars>>

InitFind ==
    DecoderInit /\ LinkIdle /\ CodecIdle /\ MailboxIdle /\ FindInit /\ CursorIdle

SpecFind == InitFind /\ [][FindPattern]_vars

\* The offsets at which f_pattern fits into f_data, and the number of
\* places at which it differs from the data there.
Offsets == 0..(Len(f_data) - Len(f_pattern))

ErrorsAt(i) == Cardinality({k \in 1..Len(f_pattern) : f_data[i + k] # f_pattern[k]})

\* The least number of a non-empty finite set of integers.
Least(S) == CHOOSE x \in S : \A y \in S : x <= y

\* C19: find_pattern returns the smallest offset at which the pattern
\* matches the data exactly when there is one; otherwise the smallest of the
\* offsets with the fewest mismatches, provided that number is at most
\* max_errors; otherwise -1, as it does when the data is shorter than the
\* pattern.
C19_FindPatternResult ==
    f_pc = "done" =>
        LET exact == {i \in Offsets : ErrorsAt(i) = 0}
            fewest == Least({ErrorsAt(i) : i \in Offsets})
        IN  IF exact # {}
            THEN f_out = Least(exact)
            ELSE IF Offsets # {} /\ fewest <= f_max_errors
            THEN f_out = Least({i \in Offsets : ErrorsAt(i) = fewest})
            ELSE f_out = -1

C19_Witness ==
    /\ f_pc = "done"
    /\ f_max_errors = 1
    /\ f_pattern = <<1, 0, 1>>
    /\ f_data = <<0, 0, 1, 1, 1>>
    /\ f_out = 0

(***************************************************************************)
(* decode_bytes on a garbled stream (SpecCodec).                           *)
(***************************************************************************)

StreamDecoded == c_mode = "stream" /\ c_pc = "decoded"

\* The whole 14-bit chunks of the received bits.
Chunks == 1..(Len(c_word) \div 14)

\* Chunk c holds a bit the channel inverted.
ChunkHit(c) == \E p \in c_hits : p \div 14 = c - 1

\* C20: decode_bytes on L bits returns floor(L / 14) bytes, the decodings
\* of the consecutive 14-bit chunks in order, and ignores the last L mod 14
\* bits; its error count is the number of chunks in which at least one of
\* the two codewords was corrected, not the number of corrected bits, so it
\* is at most floor(L / 14).
C20_DecodeBytesChunks ==
    StreamDecoded =>
        /\ Len(c_out.bytes) = Len(c_word) \div 14
        /\ \A c \in Chunks :
               /\ c_out.bytes[c] =
                      ByteOf(decode_7bits(SubSeq(c_word, 14 * c - 13, 14 * c - 7)).data_bits,
                             decode_7bits(SubSeq(c_word, 14 * c - 6, 14 * c)).data_bits)
               /\ ~ChunkHit(c) => c_out.bytes[c] = c_bytes[c]
        /\ c_out.total_errors = Cardinality({c \in Chunks : ChunkHit(c)})
        /\ c_out.total_errors <= Len(c_word) \div 14

C20_Witness ==
    /\ StreamDecoded
    /\ Len(c_bytes) = 2
    /\ Len(c_word) = 21
    /\ c_hits = {1, 9, 16}
    /\ Len(c_out.bytes) = 1
    /\ c_out.total_errors = 1

(***************************************************************************)
(* The contract of the codec's primitives (SpecCodec).                     *)
(***************************************************************************)

\* C21: encode_4bits on a sequence that is not 4 long and decode_7bits on a
\* sequence that is not 7 long raise ValueError and return neither codeword
\* nor data; on 4 resp. 7 bits they return a 7-bit codeword resp. 4 data
\* bits.  Nothing in the codec catches the error.
C21_WrongLengthRaises ==
    /\ (c_mode = "any_encode" /\ c_pc = "called") =>
           IF Len(c_data) = 4
           THEN c_out # ValueError /\ Len(c_out) = 7
           ELSE c_out = ValueError
    /\ (c_mode = "any_decode" /\ c_pc = "called") =>
           IF Len(c_data) = 7
           THEN c_out # ValueError /\ Len(c_out.data_bits) = 4
           ELSE c_out = ValueError

C21_Witness ==
    /\ c_mode = "any_encode" /\ c_pc = "called"
    /\ c_data = <<1, 0, 1>>
    /\ c_out = ValueError

\* Bit i (7 the most significant) of byte b.
BitOf(b, i) == (b \div (2 ^ i)) % 2

\* The codeword the claim gives for the data bits d.
CodewordOf(d) ==
    << d[1], d[2], d[3], d[4],
       Xor(Xor(d[1], d[2]), d[4]), Xor(Xor(d[1], d[3]), d[4]),
       Xor(Xor(d[2], d[3]), d[4]) >>

\* C22: encode_4bits(d0, d1, d2, d3) is (d0, d1, d2, d3, d0^d1^d3,
\* d0^d2^d3, d1^d2^d3); encode_bytes gives 14 bits per byte in byte order:
\* the codeword of bits 7..4 and then the codeword of bits 3..0, each most
\* significant bit first.
C22_EncoderLayout ==
    /\ (c_mode = "nibble" /\ c_pc = "encoded" /\ c_flip = -1) =>
           c_word = CodewordOf(c_data)
    /\ (c_mode \in {"bytes", "stream"} /\ c_pc = "encoded") =>
           /\ Len(c_word) = 14 * Len(c_bytes)
           /\ \A b \in 1..Len(c_bytes) :
                  /\ SubSeq(c_word, 14 * b - 13, 14 * b - 7) =
                         CodewordOf(<<BitOf(c_bytes[b], 7), BitOf(c_bytes[b], 6),
                                      BitOf(c_bytes[b], 5), BitOf(c_bytes[b], 4)>>)
                  /\ SubSeq(c_word, 14 * b - 6, 14 * b) =
                         CodewordOf(<<BitOf(c_bytes[b], 3), BitOf(c_bytes[b], 2),
                                      BitOf(c_bytes[b], 1), BitOf(c_bytes[b], 0)>>)

C22_Witness ==
    /\ c_mode = "bytes" /\ c_pc = "encoded"
    /\ c_bytes = <<165, 72>>
    /\ Len(c_word) = 28
    /\ SubSeq(c_word, 1, 7) = <<1, 0, 1, 0, 1, 0, 1>>

(***************************************************************************)
(* What an attempt removes from the buffer (Spec).                         *)
(***************************************************************************)

\* The attempt on buf searched for the preamble and found one.
FoundPreamble(buf) == ~ShortBuffer(buf) /\ HasPreamble(buf)

\* The three rejections of the candidate at the earliest preamble q of buf,
\* each with the bits it is decided on present in buf.
StartMarkerDiffers(buf, q) ==
    /\ q + HeaderStart <= Len(buf)
    /\ ~ExactAt(buf, START_MARKER, q + Len(PREAMBLE))

LengthOutOfRange(buf, q) ==
    /\ HeaderPresent(buf, q)
    /\ LengthAt(buf, q) < 1 \/ LengthAt(buf, q) > 255

EndMarkerDiffers(buf, q) ==
    /\ HeaderPresent(buf, q)
    /\ LengthAt(buf, q) >= 1 /\ LengthAt(buf, q) <= 255
    /\ q + FrameOverhead + 14 * LengthAt(buf, q) <= Len(buf)
    /\ ~ExactAt(buf, END_MARKER, q + PayloadStart + 14 * LengthAt(buf, q))

RejectedCandidate(buf) ==
    /\ FoundPreamble(buf)
    /\ LET q == EarliestPreamble(buf)
       IN  StartMarkerDiffers(buf, q) \/ LengthOutOfRange(buf, q)
              \/ EndMarkerDiffers(buf, q)

\* C23: an attempt that finds the earliest exact PREAMBLE at p and rejects
\* the candidate there (start marker differs, decoded length outside
\* 1..255, or end marker differs, the bits in question being present)
\* removes exactly the first p + 1 bits, keeps the others in order, leaves
\* packets_received unchanged and returns None.
C23_RejectionDiscardsThroughPreambleHead ==
    (Attempted /\ RejectedCandidate(AttemptBuffer))
        => /\ ret = None
           /\ bit_buffer = Slice(AttemptBuffer, EarliestPreamble(AttemptBuffer) + 1,
                                 Len(AttemptBuffer))
           /\ packets_received = pre_received

C23_Witness ==
    /\ Attempted
    /\ FoundPreamble(AttemptBuffer)
    /\ EarliestPreamble(AttemptBuffer) > 0
    /\ EndMarkerDiffers(AttemptBuffer, EarliestPreamble(AttemptBuffer))
    /\ Len(bit_buffer) = Len(AttemptBuffer) - EarliestPreamble(AttemptBuffer) - 1
    /\ pre_received > 0


\* The last call returned a packet.
ReturnedPacket == Attempted /\ Len(ret) = 1

\* C24: a successful decode with the preamble at p and payload length N
\* removes exactly the first p + 88 + 14 * N bits, leaves the others as
\* they were and in order, and adds exactly 1 to packets_received.
C24_SuccessConsumesThroughEndMarker ==
    ReturnedPacket =>
        LET p == EarliestPreamble(AttemptBuffer)
            N == ret[1].payload_length
        IN  /\ bit_buffer = Slice(AttemptBuffer, p + 88 + 14 * N, Len(AttemptBuffer))
            /\ packets_received = pre_received + 1

C24_Witness ==
    /\ ReturnedPacket
    /\ EarliestPreamble(AttemptBuffer) > 0
    /\ ret[1].payload_length = 2
    /\ Len(bit_buffer) > 0
    /\ Len(AttemptBuffer) - Len(bit_buffer) = EarliestPreamble(AttemptBuffer) + 116
    /\ packets_received = pre_received + 1

\* C25: total_packet_bits of a returned packet is
\* 16 + 8 + 56 + 14 * payload_length + 8, however many bits came before the
\* preamble and were removed with the frame.
C25_TotalPacketBitsIsFrameLength ==
    ReturnedPacket =>
        ret[1].total_packet_bits = 16 + 8 + 56 + 14 * ret[1].payload_length + 8

C25_Witness ==
    /\ ReturnedPacket
    /\ EarliestPreamble(AttemptBuffer) = 30
    /\ Popped = 146
    /\ ret[1].total_packet_bits = 116

(***************************************************************************)
(* Draining the buffer without new bits (SpecDrain).                       *)
(***************************************************************************)

\* The frames that travel in QueuedInputs, as sent.
SentFrames ==
    { [message |-> MsgHI, sequence_number |-> 5, bits |-> FrameHI],
      [message |-> MsgMin, sequence_number |-> 255, bits |-> FrameMin] }

\* The last call returned the packet of the sent frame f.
ReturnedFrame(f) ==
    /\ ReturnedPacket
    /\ ret[1].payload = f.message
    /\ ret[1].sequence_number = f.sequence_number
    /\ ret[1].payload_length = Len(f.message)

\* C26: add_bits makes one attempt per call.  Given two complete frames
\* back to back in one call, that call returns the first frame's packet and
\* leaves the second frame in the buffer; the next try_decode_packet
\* returns the second frame's packet, and the attempts after it return None.
C26_OneAttemptPerCall ==
    \A f1 \in SentFrames, f2 \in SentFrames :
        fed = f1.bits \o f2.bits =>
            /\ ops = 1 => (op = "add_bits" /\ ReturnedFrame(f1)
                              /\ bit_buffer = f2.bits /\ packets_received = 1)
            /\ ops = 2 => (ReturnedFrame(f2) /\ bit_buffer = <<>>
                              /\ packets_received = 2)
            /\ ops >= 3 => (ret = None /\ bit_buffer = <<>> /\ packets_received = 2)

C26_Witness ==
    /\ fed = FrameHI \o FrameMin
    /\ ops = 3
    /\ op = "try_decode_packet"
    /\ prev_call.op = "try_decode_packet"
    /\ Len(prev_call.ret) = 1
    /\ ret = None

\* buf holds the bits of the sent frame f, whole and unchanged, from Python
\* index q on.
HoldsFrame(buf, q, f) == ExactAt(buf, f.bits, q)

\* The candidate at an exact PREAMBLE at j of buf is one the decoder
\* rejects with the bits at hand.
Rejectable(buf, j) ==
    StartMarkerDiffers(buf, j) \/ LengthOutOfRange(buf, j) \/ EndMarkerDiffers(buf, j)

\* Every exact PREAMBLE of buf before q starts such a candidate.
OnlyFalseStartsBefore(buf, q) ==
    \A j \in 0..(q - 1) : ExactAt(buf, PREAMBLE, j) => Rejectable(buf, j)

FrameWaits(f) == \E q \in 0..Len(bit_buffer) : HoldsFrame(bit_buffer, q, f)

FrameWaitsBehindFalseStarts(f) ==
    \E q \in 0..Len(bit_buffer) :
        HoldsFrame(bit_buffer, q, f) /\ OnlyFalseStartsBefore(bit_buffer, q)

\* C27 as claimed: whatever precedes a complete uncorrupted frame in the
\* buffer, repeated try_decode_packet calls without new bits eventually
\* return the packet with that frame's payload and sequence number.
C27_FrameEventuallyReturned ==
    \A f \in SentFrames : FrameWaits(f) ~> ReturnedFrame(f)

\* C27 as amended: repeated try_decode_packet calls without new bits
\* eventually return the packet of a complete uncorrupted frame in the
\* buffer when every exact PREAMBLE before the frame starts a candidate
\* that is rejected with its bits present (start marker differs, decoded
\* length outside 1..255, or end marker differs).
C27_FrameBehindFalseStartsEventuallyReturned ==
    \A f \in SentFrames : FrameWaitsBehindFalseStarts(f) ~> ReturnedFrame(f)

C27_Witness ==
    /\ op = "try_decode_packet"
    /\ ops >= 3
    /\ prev_call.ret = None /\ prev_call.popped > 0
    /\ \E f \in SentFrames :
          /\ ReturnedFrame(f)
          /\ HoldsFrame(pre_buffer, EarliestPreamble(pre_buffer), f)

\* The last call returned None and changed nothing.
IdleCall ==
    /\ Attempted
    /\ ret = None
    /\ bit_buffer = AttemptBuffer
    /\ packets_received = pre_received

\* C28: calls of try_decode_packet without new bits come to rest.  A call
\* that changes the buffer takes bits from its head and so shortens it;
\* after a call that returned None and changed nothing every further call
\* does the same; and the calls before that are at most as many as the
\* bits the buffer held at the start (each of them removed a bit).
C28_RetriesComeToRest ==
    /\ (Attempted /\ bit_buffer # AttemptBuffer)
          => /\ Len(bit_buffer) < Len(AttemptBuffer)
             /\ IsSuffix(bit_buffer, AttemptBuffer)
    /\ (op = "try_decode_packet" /\ prev_call.op \in {"add_bits", "try_decode_packet"}
           /\ prev_call.ret = None /\ prev_call.popped = 0)
          => IdleCall
    /\ (Attempted /\ ~IdleCall)
          => /\ ops <= Len(fed)
             /\ ops <= Len(fed) - Len(bit_buffer)

C28_Witness ==
    /\ IdleCall
    /\ op = "try_decode_packet"
    /\ ops = 4
    /\ prev_call.op = "try_decode_packet" /\ prev_call.popped > 0
    /\ Len(bit_buffer) > 0
    /\ Len(bit_buffer) < Len(fed)

\* C29: an attempt that returns None on a buffer holding a complete
\* uncorrupted frame from offset q on removes at most q bits from the head:
\* the frame is still whole in the buffer after the call, the removed bits
\* nearer to the head.
C29_DiscardSparesWaitingFrame ==
    \A f \in SentFrames :
        \A q \in 0..Len(AttemptBuffer) :
            (Attempted /\ ret = None /\ HoldsFrame(AttemptBuffer, q, f))
                => /\ Popped <= q
                   /\ HoldsFrame(bit_buffer, q - Popped, f)

C29_Witness ==
    /\ Attempted
    /\ ret = None
    /\ Popped > 0
    /\ \E f \in SentFrames :
          \E q \in 1..Len(AttemptBuffer) :
              /\ HoldsFrame(AttemptBuffer, q, f)
              /\ EarliestPreamble(AttemptBuffer) < q
              /\ HoldsFrame(bit_buffer, q - Popped, f)

(***************************************************************************)
(* The buffer as a window on the bit stream (Spec).                        *)
(***************************************************************************)

\* C30: after any sequence of add_bits, try_decode_packet and clear calls
\* bit_buffer is a tail end of all the bits given to add_bits since the
\* last clear: add_bits appends its bits at the tail, an attempt removes
\* bits from the head only, and nothing is reordered, altered or taken out
\* of the middle.
C30_BufferIsSuffixOfFedBits ==
    /\ IsSuffix(bit_buffer, fed)
    /\ op = "add_bits" =>
           /\ IsSuffix(in_bits, AttemptBuffer) \/ IsSuffix(AttemptBuffer, in_bits)
           /\ IsSuffix(bit_buffer, AttemptBuffer)
           /\ IsSuffix(AttemptBuffer, pre_buffer \o in_bits)
    /\ op = "try_decode_packet" => IsSuffix(bit_buffer, pre_buffer)
    /\ op = "clear" => (bit_buffer = <<>> /\ fed = <<>>)

C30_Witness ==
    /\ ops = 3
    /\ prev_call.op = "clear"
    /\ op = "add_bits"
    /\ fed = in_bits
    /\ Len(bit_buffer) > 0
    /\ Len(bit_buffer) < Len(fed)
    /\ IsSuffix(bit_buffer, fed)

(***************************************************************************)
(* The frames of the returned packets in the stream of fed bits (Spec).    *)
(***************************************************************************)

\* C31: no fed bit is consumed by two packets.  The frames of the packets
\* returned one after the other lie within the bits fed so far, each
\* begins where the one before it ended or later, and so no two of them
\* share a bit: a frame fed once is returned at most once.
C31_ReturnedFramesAreDisjoint ==
    /\ Len(frames) = returned
    /\ \A i \in 1..Len(frames) :
          /\ 0 <= frames[i].first
          /\ frames[i].first < frames[i].end
          /\ frames[i].end <= stream_len
    /\ \A i \in 1..(Len(frames) - 1) : frames[i].end <= frames[i + 1].first

C31_Witness ==
    /\ Len(frames) = 2
    /\ frames[1].end - frames[1].first = Len(FrameHI)
    /\ frames[2].first > frames[1].end
    /\ ReturnedPacket

(***************************************************************************)
(* decode_7bits on every 7-bit word (SpecCodec).                           *)
(***************************************************************************)

\* w is one of the 16 codewords.
IsCodeword(w) == \E d \in [1..4 -> {0, 1}] : \A j \in 1..7 : w[j] = CodewordOf(d)[j]

\* decode_7bits was called on a word of 7 bits.
DecodedSevenBits == c_mode = "any_decode" /\ c_pc = "called" /\ Len(c_data) = 7

\* C32: decode_7bits reports a correction exactly for the words that are
\* not codewords, and then has inverted exactly one bit of the word; for a
\* codeword it reports none and leaves the word as it is.  No word with a
\* nonzero syndrome is turned away by the guard 1 <= error_position <= 7.
\* The data returned are the first four bits of the word after that.
C32_CorrectedIffNotCodeword ==
    DecodedSevenBits =>
        /\ IF IsCodeword(c_data)
           THEN c_out.error_corrected = FALSE /\ c_out.word = c_data
           ELSE c_out.error_corrected = TRUE /\ Mismatches(c_out.word, c_data) = 1
        /\ c_out.data_bits = SubSeq(c_out.word, 1, 4)

C32_Witness ==
    /\ DecodedSevenBits
    /\ c_data = <<1, 0, 1, 0, 0, 1, 1>>
    /\ ~IsCodeword(c_data)
    /\ c_out.error_corrected = TRUE
    /\ c_out.word = <<1, 0, 1, 0, 0, 0, 1>>

(***************************************************************************)
(* Two consumers of the latest packet (SpecMailbox).                       *)
(***************************************************************************)

\* The calls of get_latest_packet, in the order of their reads, that
\* returned a packet.
Deliveries == { i \in 1..Len(got) : got[i].packet # None }

\* C33: with the bit-processing thread storing packets and the terminal
\* thread and the plot both calling get_latest_packet, every stored packet
\* is returned by at most one call in all, and the packet_number values a
\* consumer receives go strictly up.
C33_EachPacketDeliveredOnce ==
    /\ \A k \in 1..Len(published) :
          Cardinality({ i \in Deliveries : got[i].packet = Some(published[k]) }) <= 1
    /\ \A i \in Deliveries :
          \E k \in 1..Len(published) : got[i].packet = Some(published[k])
    /\ \A i \in Deliveries, j \in Deliveries :
          (i < j /\ got[i].by = got[j].by)
              => got[i].packet[1].packet_number < got[j].packet[1].packet_number

C33_Witness ==
    /\ Len(got) = 3
    /\ got[1].by = "terminal" /\ got[1].packet # None
    /\ got[2].by = "plot" /\ got[2].packet # None
    /\ got[3].by = "terminal" /\ got[3].packet # None
    /\ got[1].packet[1].packet_number = 1
    /\ got[3].packet[1].packet_number = 3

(***************************************************************************)
(* src/src/receiver/receiver.py: bit_processing_loop reading the bit sink. *)
(* The flowgraph's thread appends bits to vector_sink_bits at any time;    *)
(* the loop copies the sink, hands the bits behind its cursor              *)
(* last_bit_count to add_bits and moves the cursor.  What the decoder does *)
(* with the bits it is handed is the subject of the specifications above;  *)
(* here the call is recorded in passed.                                    *)
(***************************************************************************)

\* if len(current_bits) > 15000
SinkResetAbove == 15000

\* How many bits the flowgraph writes to the sink at once.
ChunkBits == { 30, SinkResetAbove }

\* bit_processing_loop starts: its locals as initialised, the sinks empty.
InitLoop ==
    /\ DecoderInit /\ LinkIdle /\ CodecIdle /\ MailboxIdle /\ FindIdle
    /\ sink_len = 0
    /\ collected = 0
    /\ collects = 0
    /\ current_power \in {"above", "below"}
    /\ signal_detected = FALSE
    /\ last_bit_count = 0
    /\ current_bits = [len |-> 0, top |-> 0]
    /\ bits_pc = "power"
    /\ passed = <<>>
    /\ seen_top = 0
    /\ lost = [jumped |-> 0, emptied |-> 0]

\* The flowgraph writes n more bits to vector_sink_bits.
SinkCollects ==
    /\ bits_pc # "off"
    /\ collects < MaxCollects
    /\ \E n \in ChunkBits :
          /\ sink_len' = sink_len + n
          /\ collected' = collected + n
    /\ collects' = collects + 1
    /\ UNCHANGED <<current_power, signal_detected, last_bit_count, current_bits,
                   bits_pc, passed, seen_top, lost,
                   decoder_vars, link_vars, codec_vars, mailbox_vars, find_vars>>

\* The received power crosses power_threshold.
PowerChanges ==
    /\ bits_pc # "off"
    /\ current_power' = IF current_power = "above" THEN "below" ELSE "above"
    /\ UNCHANGED <<sink_len, collected, collects, signal_detected, last_bit_count,
                   current_bits, bits_pc, passed, seen_top, lost,
                   decoder_vars, link_vars, codec_vars, mailbox_vars, find_vars>>

\* The check of the signal power, due every 2 seconds; on a newly detected
\* signal reset_for_new_signal empties the sinks.
LoopCheckPower ==
    /\ bits_pc = "power"
    /\ \E due \in BOOLEAN :
          IF due /\ current_power = "above" /\ ~signal_detected
          THEN /\ signal_detected' = TRUE
               /\ sink_len' = 0
               /\ seen_top' = collected
          ELSE IF due /\ current_power = "below" /\ signal_detected
          THEN /\ signal_detected' = FALSE
               /\ UNCHANGED <<sink_len, seen_top>>
          ELSE UNCHANGED <<signal_detected, sink_len, seen_top>>
    /\ bits_pc' = "read"
    /\ UNCHANGED <<collected, collects, current_power, last_bit_count, current_bits,
                   passed, lost,
                   decoder_vars, link_vars, codec_vars, mailbox_vars, find_vars>>

\* current_bits = list(self.vector_sink_bits.data()); with nothing behind
\* the cursor the loop sleeps and starts over.
LoopReadSink ==
    /\ bits_pc = "read"
    /\ current_bits' = [len |-> sink_len, top |-> collected]
    /\ bits_pc' = IF sink_len > last_bit_count THEN "process" ELSE "power"
    /\ UNCHANGED <<sink_len, collected, collects, current_power, signal_detected,
                   last_bit_count, passed, seen_top, lost,
                   decoder_vars, link_vars, codec_vars, mailbox_vars, find_vars>>

\* new_bits = current_bits[last_bit_count:], given to add_bits when the
\* signal is detected and the recent symbols differ; then
\* last_bit_count = len(current_bits).
LoopProcess ==
    /\ bits_pc = "process"
    /\ \E diverse \in BOOLEAN :
          LET first == current_bits.top - current_bits.len + last_bit_count + 1
              last == current_bits.top
              live == signal_detected /\ diverse
          IN  /\ passed' = IF live
                           THEN Append(passed, [first |-> first, last |-> last])
                           ELSE passed
              /\ lost' = IF live /\ first - 1 > seen_top
                         THEN [lost EXCEPT !.jumped = @ + (first - 1 - seen_top)]
                         ELSE lost
              /\ seen_top' = last
    /\ last_bit_count' = current_bits.len
    /\ bits_pc' = IF current_bits.len > SinkResetAbove THEN "reset_sink" ELSE "power"
    /\ UNCHANGED <<sink_len, collected, collects, current_power, signal_detected,
                   current_bits,
                   decoder_vars, link_vars, codec_vars, mailbox_vars, find_vars>>

\* The periodic reset: vector_sink_bits.reset() and last_bit_count = 0.
LoopSinkReset ==
    /\ bits_pc = "reset_sink"
    /\ sink_len' = 0
    /\ last_bit_count' = 0
    /\ lost' = IF signal_detected
               THEN [lost EXCEPT !.emptied = @ + (collected - seen_top)]
               ELSE lost
    /\ seen_top' = collected
    /\ bits_pc' = "power"
    /\ UNCHANGED <<collected, collects, current_power, signal_detected, current_bits,
                   passed,
                   decoder_vars, link_vars, codec_vars, mailbox_vars, find_vars>>

LoopNext ==
    \/ SinkCollects \/ PowerChanges
    \/ LoopCheckPower \/ LoopReadSink \/ LoopProcess \/ LoopSinkReset

SpecLoop == InitLoop /\ [][LoopNext]_vars

\* C34: while the signal is detected and the symbols differ, every bit the
\* sink collects is given to add_bits exactly once and in the order of the
\* sink, also after reset_for_new_signal has emptied the sink and after the
\* periodic reset: the cursor last_bit_count is never beyond the end of
\* the sink, the runs of bits passed follow one another without a bit
\* passed twice, and no bit goes unread.
C34_EveryBitPassedOnce ==
    /\ last_bit_count <= sink_len
    /\ \A i \in 1..Len(passed) : passed[i].first <= passed[i].last
    /\ \A i \in 1..(Len(passed) - 1) : passed[i].last < passed[i + 1].first
    /\ lost.jumped = 0
    /\ lost.emptied = 0

\* C35: create_header stores sequence_number mod 256 in byte 2 of the
\* header, so for a sequence number s of any size the frame of
\* build_packet(message, s) carries the encoding of s mod 256 there,
\* and the packet decoded from that frame reports sequence_number = s mod 256.
C35_SequenceNumberWraps ==
    /\ (link_pc = "header" /\ ~tx.raised)
          => tx.header[3] = tx.sequence_number % 256
    /\ link_pc = "built"
          => Slice(wire, 52, 66) = encode_bytes(<<tx.sequence_number % 256>>)
    /\ (link_pc = "received" /\ hit.kind = "none" /\ ret # None)
          => ret[1].sequence_number = tx.sequence_number % 256

C35_Witness ==
    /\ link_pc = "received" /\ hit.kind = "none" /\ ret # None
    /\ tx.sequence_number = 261
    /\ ret[1].sequence_number = 5
    /\ ret[1].payload = tx.message
=============================================================================
